---- MODULE Spec2Model ----
(***************************************************************************)
(* A model of the Roset FUSE driver and CSI node supervisor:               *)
(*   - InodeMap            (src/fuse/src/inode.rs)                         *)
(*   - Cache               (src/fuse/src/cache.rs)                         *)
(*   - RosetFs directory operations (src/fuse/src/fs.rs)                   *)
(*   - RosetClient retry loops (src/fuse/src/client/mod.rs, client.rs)     *)
(*   - StagingManager / process_upload (src/fuse/src/staging.rs)           *)
(*   - RosetFs write path: create, write, fsync, release, open, read       *)
(*   - Supervisor / NodeService (src/csi/src/supervisor.rs, node.rs)       *)
(* Each subsystem has its own specification; the variables of the other    *)
(* subsystems are held at their idle value.                                *)
(***************************************************************************)
EXTENDS Integers, Sequences, FiniteSets, TLC

VARIABLES
    \* ---- InodeMap (inode.rs) ----
    next_ino,       \* AtomicU64 next inode to allocate
    node_to_ino,    \* node id -> inode, 0 when absent
    ino_to_node,    \* inode -> node id, "none" when absent
    refcounts,      \* inode -> refcount, 0 when absent
    ilocks,         \* the three RwLocks: name -> [w: holder or 0, r: set of holders]
    ipc,            \* per thread: position inside get_or_create / forget
    iarg,           \* per thread: the call's arguments and locals
    kref,           \* ghost: references the kernel holds per inode
    stable,         \* ghost: node id -> inode handed out while references remain
    gocBad,         \* ghost: a get_or_create returned an inode other than stable
    \* ---- Cache (cache.rs) and RosetFs directory operations (fs.rs) ----
    cache,          \* Cache: [nodes, children, parents, negative] 
    now,            \* Instant::now(), in ticks
    srv,            \* the remote tree: node id -> [exists, parent, name]
    known,          \* node ids the inode map has handed to the kernel
    read_only,      \* RosetFs::read_only
    freply,         \* the reply of the last kernel request; for a readdir, where the
                    \* listing came from: "cached", "manifest" or "listed"
    cachedAfter,    \* ghost: directories whose cached listing postdates their last change
    staleServe,     \* ghost: a readdir was answered from a listing older than a change
    ccfg,           \* RosetClient::config: [max_retries, initial_backoff_ms]
    cop,            \* the client call in progress: "none", "json", "delete", "delete_legacy"
    cpc,            \* its position: "idle", "send", "sleep", "done"
    attempt,        \* let mut attempt
    delay_ms,       \* let mut delay_ms
    chist,          \* ghost: the responses received by the call, in order
    csleeps,        \* ghost: the delays slept by the call, in order
    cresult,        \* the value the call returned: "pending", "Ok" or an ApiError
    sclock,         \* Instant::now() of the node plugin, in ticks
    next_check,     \* the tick at which the monitor loop wakes next
    processes,      \* Supervisor::processes: volume -> FuseProcessState (or none)
    alive,          \* per volume: a mount process is running and answers
    tasks,          \* the recovery tasks spawned by the monitor and not yet run
    spc,            \* per volume: position of a node_stage_volume request
    sreply,         \* per volume: the outcome of the last node_stage_volume request
    ghist,          \* ghost, per volume: restarts recorded since the registration
    keyfile,        \* per volume: the temp API key file exists
    \* ---- write path (fs.rs) and staging engine (staging.rs) ----
    durability_mode, \* RosetFs::durability_mode; a staging manager exists unless "Sync"
    running,        \* the mount process is up
    handles,        \* RosetFs::handles, one slot: [write_mode, size, dirty]
    temp_file,      \* the bytes of the handle's temp file
    data_file,      \* the staged data file: [loc, bytes], loc "none", "staging" or "failed"
    job_file,       \* its sidecar: [loc, total_size, completed_parts, partial]
    queue,          \* the worker channel of upload jobs
    wpc,            \* the worker's position
    job,            \* the UploadJob the worker holds
    attempts,       \* let mut attempts
    pending_parts,  \* the parts of the stream whose result has not been taken
    put_done,       \* the part numbers whose PUT is done and whose result waits
    inl,            \* the inline upload a handler is blocked in
    parts_store,    \* upload service: part number -> bytes of the part
    object,         \* upload service: the committed bytes of the file
    rreply,         \* the last read: [offset, size, data, fresh]
    created,        \* the file has been created
    written,        \* ghost: position -> the byte last written there
    nwrites,        \* ghost: the number of writes so far
    rsize,          \* ghost: the handle's size when it was released, -1 before
    flushed,        \* ghost: an upload completed after the last write
    ofresh,         \* ghost: the read handle was opened after release and upload
    done,           \* ghost: the last successful complete: [who, size, parts]
    reput,          \* ghost: a part recorded in the sidecar was PUT again
    accepted,       \* ghost: stage_file accepted the job
    ureply,         \* the last fsync or release: [op, code], code "pending" while the
                    \* handler is blocked
    unsorted,       \* ghost: a complete_multipart_upload call carried a part list
                    \* that was not in ascending order of part number
    sleeps,         \* ghost: the delays the worker slept for the job it holds
    crashes,        \* ghost: the number of process exits
    crash_at,       \* ghost: where the last exit took the worker: "stream0" in the part
                    \* stream with no part recorded, "stream" with some recorded and
                    \* some not, "streamed" with all recorded, "other" elsewhere
    \* ---- signed download URL of a read handle (fs.rs open, read) ----
    uclock,         \* SystemTime::now(), in ticks
    uh,             \* the handle's [download_url, expires_at]; a URL is named by the
                    \* tick at which get_download_url issued it
    rq,             \* the last read: [refreshes, fetches, url, code, flip]: the numbers
                    \* of get_download_url and download_range calls it made, the URL of
                    \* its first download_range (-1 when none) and its reply
    \* ---- observers of single requests ----
    \* ---- Supervisor::health_check against hanging mounts (supervisor.rs) ----
    pmutex,         \* Supervisor::processes' mutex: "free", "monitor" or "api"
    ppc,            \* the monitor's position in health_check: "idle", "iter" or "join"
    ptodo,          \* the volumes the iteration has still to visit
    pcur,           \* the volume whose stat thread is being joined, "none" otherwise
    preg,           \* the registered volumes
    hung,           \* the volumes whose mount never answers a stat
    apc,            \* a gRPC handler's supervisor call in progress: [op, vol]
    \* ---- StagingManager::new's hydration scan against stage_file (staging.rs) ----
    hscan,          \* the hydration task: "todo", "scanning" or "done"
    hseen,          \* the sidecars its read_dir iteration has yielded
    hfiles,         \* staging directory: job -> [data, job]: which of its files exist
    hstage,         \* stage_file for the new job: "idle", "moved", "written" or "sent"
    hchan,          \* the worker channel: the jobs sent and not yet received
    hsent,          \* ghost: job -> the number of times it was sent to the channel
    lk,             \* ghost: the last counted lookup: [p, n, calls, flip], calls the
                    \* number of client.resolve calls it made, flip toggled by each
    hr              \* the last counted write or setattr: [op, a, b, code, n, flip]; a, b
                    \* are (offset, len) of a write and (0, new_size) of a setattr

inodeVars == <<next_ino, node_to_ino, ino_to_node, refcounts, ilocks, ipc, iarg,
               kref, stable, gocBad>>

dirVars == <<cache, now, srv, known, read_only, freply, cachedAfter, staleServe>>

clientVars == <<ccfg, cop, cpc, attempt, delay_ms, chist, csleeps, cresult>>

supVars == <<sclock, next_check, processes, alive, tasks, spc, sreply, ghist, keyfile>>

upVars == <<durability_mode, running, handles, temp_file, data_file, job_file, queue,
            wpc, job, attempts, pending_parts, put_done, inl, parts_store, object,
            rreply, created, written, nwrites, rsize, flushed, ofresh, done,
            reput, accepted, ureply, unsorted, sleeps, crashes, crash_at>>

urlVars == <<uclock, uh, rq>>

probeVars == <<pmutex, ppc, ptodo, pcur, preg, hung, apc>>

hydVars == <<hscan, hseen, hfiles, hstage, hchan, hsent>>

obsVars == <<lk, hr>>

vars == <<inodeVars, dirVars, clientVars, supVars, upVars, urlVars, probeVars, hydVars, obsVars>>
notInode == <<dirVars, clientVars, supVars, upVars, urlVars, probeVars, hydVars, obsVars>>
notDir == <<inodeVars, clientVars, supVars, upVars, urlVars, probeVars, hydVars, obsVars>>
notClient == <<inodeVars, dirVars, supVars, upVars, urlVars, probeVars, hydVars, obsVars>>
notSup == <<inodeVars, dirVars, clientVars, upVars, urlVars, probeVars, hydVars, obsVars>>
notUp == <<inodeVars, dirVars, clientVars, supVars, urlVars, probeVars, hydVars, obsVars>>
notProbe == <<inodeVars, dirVars, clientVars, supVars, upVars, urlVars, hydVars, obsVars>>
notHyd == <<inodeVars, dirVars, clientVars, supVars, upVars, urlVars, probeVars, obsVars>>
notUpCache == <<inodeVars, now, srv, known, read_only, freply, cachedAfter, staleServe,
                clientVars, supVars, urlVars, probeVars, hydVars, obsVars>>
notUpDir == <<inodeVars, now, srv, known, read_only, freply, staleServe,
                clientVars, supVars, urlVars, probeVars, hydVars, obsVars>>

Max(a, b) == IF a > b THEN a ELSE b
Min(a, b) == IF a < b THEN a ELSE b

(***************************************************************************)
(* InodeMap                                                                *)
(***************************************************************************)
NumThreads == 2
MaxIno == 3
MaxRef == 2
ROOT_INO == 1
FIRST_INO == 2

Threads == 1..NumThreads
NodeIds == {"root", "a"}
Inos == 1..MaxIno
NoLock == [w |-> 0, r |-> {}]

CanRead(l) == ilocks[l].w = 0
CanWrite(l) == ilocks[l].w = 0 /\ ilocks[l].r = {}

IdleArg == [node |-> "none", ino |-> 0, nlookup |-> 0, entry |-> FALSE]

\* InodeMap::new followed by set_root (init_root runs before the mount)
InodeInit ==
    /\ next_ino = FIRST_INO
    /\ node_to_ino = [n \in NodeIds |-> IF n = "root" THEN ROOT_INO ELSE 0]
    /\ ino_to_node = [i \in Inos |-> IF i = ROOT_INO THEN "root" ELSE "none"]
    /\ refcounts = [i \in Inos |-> IF i = ROOT_INO THEN 1 ELSE 0]
    /\ ilocks = [l \in {"n2i", "i2n", "refs"} |-> NoLock]
    /\ ipc = [t \in Threads |-> "idle"]
    /\ iarg = [t \in Threads |-> IdleArg]
    /\ kref = [i \in Inos |-> IF i = ROOT_INO THEN 1 ELSE 0]
    /\ stable = [n \in NodeIds |-> IF n = "root" THEN ROOT_INO ELSE 0]
    /\ gocBad = FALSE

\* ghost bookkeeping of a get_or_create(node) that returns ino
GhostReturn(node, ino) ==
    /\ kref' = [kref EXCEPT ![ino] = @ + 1]
    /\ stable' = IF stable[node] = 0 THEN [stable EXCEPT ![node] = ino] ELSE stable
    /\ gocBad' = (gocBad \/ (stable[node] # 0 /\ stable[node] # ino))

\* a kernel thread enters get_or_create(node_id) on the way to an entry reply
\* (lookup, mkdir, create): the reply hands the kernel one reference
GocCall(t, n) ==
    /\ ipc[t] = "idle"
    /\ ipc' = [ipc EXCEPT ![t] = "goc_rd_n2i"]
    /\ iarg' = [iarg EXCEPT ![t] = [node |-> n, ino |-> 0, nlookup |-> 0, entry |-> TRUE]]
    /\ UNCHANGED <<next_ino, node_to_ino, ino_to_node, refcounts, ilocks, kref, stable, gocBad>>
    /\ UNCHANGED notInode

\* readdir: get_or_create(&child.id) for a listed child; the directory entry
\* carries the inode number but hands the kernel no reference
ReaddirCall(t, n) ==
    /\ ipc[t] = "idle"
    /\ n # "root"
    /\ ipc' = [ipc EXCEPT ![t] = "goc_rd_n2i"]
    /\ iarg' = [iarg EXCEPT ![t] = [node |-> n, ino |-> 0, nlookup |-> 0, entry |-> FALSE]]
    /\ UNCHANGED <<next_ino, node_to_ino, ino_to_node, refcounts, ilocks, kref, stable, gocBad>>
    /\ UNCHANGED notInode

\* let n2i = self.node_to_ino.read()
GocReadN2I(t) ==
    /\ ipc[t] = "goc_rd_n2i"
    /\ CanRead("n2i")
    /\ ilocks' = [ilocks EXCEPT !["n2i"].r = @ \cup {t}]
    /\ ipc' = [ipc EXCEPT ![t] = "goc_check"]
    /\ UNCHANGED <<next_ino, node_to_ino, ino_to_node, refcounts, iarg, kref, stable, gocBad>>
    /\ UNCHANGED notInode

\* the end of the fast-path block drops the n2i read guard
DropReadMut(locks, l, t) == locks
DropRead(locks, l, t) == [locks EXCEPT ![l].r = @ \ {t}]

\* if let Some(&ino) = n2i.get(node_id): found, go on to the refcount; else drop the read lock
GocCheck(t) ==
    /\ ipc[t] = "goc_check"
    /\ IF node_to_ino[iarg[t].node] # 0
       THEN /\ iarg' = [iarg EXCEPT ![t].ino = node_to_ino[iarg[t].node]]
            /\ ipc' = [ipc EXCEPT ![t] = "goc_wr_refs"]
            /\ UNCHANGED ilocks
       ELSE /\ ilocks' = DropRead(ilocks, "n2i", t)
            /\ ipc' = [ipc EXCEPT ![t] = "goc_alloc"]
            /\ UNCHANGED iarg
    /\ UNCHANGED <<next_ino, node_to_ino, ino_to_node, refcounts, kref, stable, gocBad>>
    /\ UNCHANGED notInode

\* the refcount after one more reference: *r += 1, or insert(ino, 1) when missing
RefIncrement(count) == count + 1

\* fast path: refs.write(), increment, return ino (both guards dropped)
GocFastReturn(t) ==
    /\ ipc[t] = "goc_wr_refs"
    /\ CanWrite("refs")
    /\ refcounts[iarg[t].ino] < MaxRef
    /\ refcounts' = [refcounts EXCEPT ![iarg[t].ino] = RefIncrement(@)]
    /\ ilocks' = [ilocks EXCEPT !["n2i"].r = @ \ {t}]
    /\ IF iarg[t].entry
       THEN GhostReturn(iarg[t].node, iarg[t].ino)
       ELSE UNCHANGED <<kref, stable, gocBad>>
    /\ ipc' = [ipc EXCEPT ![t] = "idle"]
    /\ iarg' = [iarg EXCEPT ![t] = IdleArg]
    /\ UNCHANGED <<next_ino, node_to_ino, ino_to_node>>
    /\ UNCHANGED notInode

\* let ino = self.next_ino.fetch_add(1, SeqCst)
GocAlloc(t) ==
    /\ ipc[t] = "goc_alloc"
    /\ next_ino <= MaxIno
    /\ iarg' = [iarg EXCEPT ![t].ino = next_ino]
    /\ next_ino' = next_ino + 1
    /\ ipc' = [ipc EXCEPT ![t] = "goc_wr_n2i"]
    /\ UNCHANGED <<node_to_ino, ino_to_node, refcounts, ilocks, kref, stable, gocBad>>
    /\ UNCHANGED notInode

\* let mut n2i = self.node_to_ino.write()
GocWriteN2I(t) ==
    /\ ipc[t] = "goc_wr_n2i"
    /\ CanWrite("n2i")
    /\ ilocks' = [ilocks EXCEPT !["n2i"].w = t]
    /\ ipc' = [ipc EXCEPT ![t] = "goc_wr_i2n"]
    /\ UNCHANGED <<next_ino, node_to_ino, ino_to_node, refcounts, iarg, kref, stable, gocBad>>
    /\ UNCHANGED notInode

\* let mut i2n = self.ino_to_node.write()
GocWriteI2N(t) ==
    /\ ipc[t] = "goc_wr_i2n"
    /\ CanWrite("i2n")
    /\ ilocks' = [ilocks EXCEPT !["i2n"].w = t]
    /\ ipc' = [ipc EXCEPT ![t] = "goc_insert"]
    /\ UNCHANGED <<next_ino, node_to_ino, ino_to_node, refcounts, iarg, kref, stable, gocBad>>
    /\ UNCHANGED notInode

\* refs.write(); double-check after acquiring the write locks; insert; return
GocInsert(t) ==
    /\ ipc[t] = "goc_insert"
    /\ CanWrite("refs")
    /\ LET node == iarg[t].node
           existing == node_to_ino[node]
       IN IF existing # 0
          THEN /\ refcounts[existing] < MaxRef
               /\ refcounts' = [refcounts EXCEPT ![existing] = RefIncrement(@)]
               /\ IF iarg[t].entry
                  THEN GhostReturn(node, existing)
                  ELSE UNCHANGED <<kref, stable, gocBad>>
               /\ UNCHANGED <<node_to_ino, ino_to_node>>
          ELSE /\ node_to_ino' = [node_to_ino EXCEPT ![node] = iarg[t].ino]
               /\ ino_to_node' = [ino_to_node EXCEPT ![iarg[t].ino] = node]
               /\ refcounts' = [refcounts EXCEPT ![iarg[t].ino] = 1]
               /\ IF iarg[t].entry
                  THEN GhostReturn(node, iarg[t].ino)
                  ELSE UNCHANGED <<kref, stable, gocBad>>
    /\ ilocks' = [ilocks EXCEPT !["n2i"].w = 0, !["i2n"].w = 0]
    /\ ipc' = [ipc EXCEPT ![t] = "idle"]
    /\ iarg' = [iarg EXCEPT ![t] = IdleArg]
    /\ UNCHANGED next_ino
    /\ UNCHANGED notInode

\* forget keeps the entry when references remain: if count > nlookup
ForgetKeepsMut(count, nlookup) == count > nlookup + 1
ForgetKeeps(count, nlookup) == count > nlookup

\* forget(ino, nlookup): root returns at once; otherwise step 1 under refs.write()
ForgetCall(t, ino, nl) ==
    /\ ipc[t] = "idle"
    /\ ino < next_ino
    /\ IF ino = ROOT_INO
       THEN UNCHANGED <<ipc, iarg, refcounts, kref, stable>>
       ELSE /\ CanWrite("refs")
            /\ LET count == refcounts[ino]
                   left == Max(0, kref[ino] - nl)
               IN /\ IF ForgetKeeps(count, nl)
                     THEN /\ refcounts' = [refcounts EXCEPT ![ino] = count - nl]
                          /\ ipc' = ipc
                          /\ iarg' = iarg
                     ELSE /\ refcounts' = [refcounts EXCEPT ![ino] = 0]
                          /\ ipc' = [ipc EXCEPT ![t] = "fg_wr_n2i"]
                          /\ iarg' = [iarg EXCEPT ![t] = [node |-> "none", ino |-> ino, nlookup |-> nl,
                                                                entry |-> FALSE]]
                  /\ kref' = [kref EXCEPT ![ino] = left]
                  /\ stable' = IF left = 0
                               THEN [n \in NodeIds |-> IF stable[n] = ino THEN 0 ELSE stable[n]]
                               ELSE stable
    /\ UNCHANGED <<next_ino, node_to_ino, ino_to_node, ilocks, gocBad>>
    /\ UNCHANGED notInode

\* let mut n2i = self.node_to_ino.write()
ForgetWriteN2I(t) ==
    /\ ipc[t] = "fg_wr_n2i"
    /\ CanWrite("n2i")
    /\ ilocks' = [ilocks EXCEPT !["n2i"].w = t]
    /\ ipc' = [ipc EXCEPT ![t] = "fg_wr_i2n"]
    /\ UNCHANGED <<next_ino, node_to_ino, ino_to_node, refcounts, iarg, kref, stable, gocBad>>
    /\ UNCHANGED notInode

\* let mut i2n = self.ino_to_node.write()
ForgetWriteI2N(t) ==
    /\ ipc[t] = "fg_wr_i2n"
    /\ CanWrite("i2n")
    /\ ilocks' = [ilocks EXCEPT !["i2n"].w = t]
    /\ ipc' = [ipc EXCEPT ![t] = "fg_remove"]
    /\ UNCHANGED <<next_ino, node_to_ino, ino_to_node, refcounts, iarg, kref, stable, gocBad>>
    /\ UNCHANGED notInode

\* refs.contains_key(&ino): an absent entry is a count of 0
contains_keyMut(refs, ino) == FALSE
contains_key(refs, ino) == refs[ino] # 0

\* refs.read(); if nobody resurrected the entry, remove both mappings
ForgetRemove(t) ==
    /\ ipc[t] = "fg_remove"
    /\ CanRead("refs")
    /\ LET ino == iarg[t].ino
       IN IF ~contains_key(refcounts, ino) /\ ino_to_node[ino] # "none"
          THEN /\ node_to_ino' = [node_to_ino EXCEPT ![ino_to_node[ino]] = 0]
               /\ ino_to_node' = [ino_to_node EXCEPT ![ino] = "none"]
          ELSE UNCHANGED <<node_to_ino, ino_to_node>>
    /\ ilocks' = [ilocks EXCEPT !["n2i"].w = 0, !["i2n"].w = 0]
    /\ ipc' = [ipc EXCEPT ![t] = "idle"]
    /\ iarg' = [iarg EXCEPT ![t] = IdleArg]
    /\ UNCHANGED <<next_ino, refcounts, kref, stable, gocBad>>
    /\ UNCHANGED notInode

\* get_node_id(ino): i2n.read(), i2n.get(&ino).cloned()
get_node_id(ino) == ino_to_node[ino]

\* get_node_id / get_ino as calls of a thread: take the one read lock ...
GetNodeIdCall(t) ==
    /\ ipc[t] = "idle"
    /\ ipc' = [ipc EXCEPT ![t] = "gni_rd_i2n"]
    /\ UNCHANGED <<next_ino, node_to_ino, ino_to_node, refcounts, ilocks, iarg, kref, stable, gocBad>>
    /\ UNCHANGED notInode

GetInoCall(t) ==
    /\ ipc[t] = "idle"
    /\ ipc' = [ipc EXCEPT ![t] = "gi_rd_n2i"]
    /\ UNCHANGED <<next_ino, node_to_ino, ino_to_node, refcounts, ilocks, iarg, kref, stable, gocBad>>
    /\ UNCHANGED notInode

\* ... read the map and drop the guard on return
GetNodeIdReturn(t) ==
    /\ ipc[t] = "gni_rd_i2n"
    /\ CanRead("i2n")
    /\ ipc' = [ipc EXCEPT ![t] = "idle"]
    /\ UNCHANGED <<next_ino, node_to_ino, ino_to_node, refcounts, ilocks, iarg, kref, stable, gocBad>>
    /\ UNCHANGED notInode

GetInoReturn(t) ==
    /\ ipc[t] = "gi_rd_n2i"
    /\ CanRead("n2i")
    /\ ipc' = [ipc EXCEPT ![t] = "idle"]
    /\ UNCHANGED <<next_ino, node_to_ino, ino_to_node, refcounts, ilocks, iarg, kref, stable, gocBad>>
    /\ UNCHANGED notInode

\* set_root(node_id): n2i.write(), i2n.write(), refs.write(), three inserts
SetRootCall(t) ==
    /\ ipc[t] = "idle"
    /\ kref[ROOT_INO] < MaxRef
    /\ ipc' = [ipc EXCEPT ![t] = "sr_wr_n2i"]
    /\ UNCHANGED <<next_ino, node_to_ino, ino_to_node, refcounts, ilocks, iarg, kref, stable, gocBad>>
    /\ UNCHANGED notInode

SetRootWriteN2I(t) ==
    /\ ipc[t] = "sr_wr_n2i"
    /\ CanWrite("n2i")
    /\ ilocks' = [ilocks EXCEPT !["n2i"].w = t]
    /\ ipc' = [ipc EXCEPT ![t] = "sr_wr_i2n"]
    /\ UNCHANGED <<next_ino, node_to_ino, ino_to_node, refcounts, iarg, kref, stable, gocBad>>
    /\ UNCHANGED notInode

SetRootWriteI2N(t) ==
    /\ ipc[t] = "sr_wr_i2n"
    /\ CanWrite("i2n")
    /\ ilocks' = [ilocks EXCEPT !["i2n"].w = t]
    /\ ipc' = [ipc EXCEPT ![t] = "sr_insert"]
    /\ UNCHANGED <<next_ino, node_to_ino, ino_to_node, refcounts, iarg, kref, stable, gocBad>>
    /\ UNCHANGED notInode

SetRootInsert(t) ==
    /\ ipc[t] = "sr_insert"
    /\ CanWrite("refs")
    /\ node_to_ino' = [node_to_ino EXCEPT !["root"] = ROOT_INO]
    /\ ino_to_node' = [ino_to_node EXCEPT ![ROOT_INO] = "root"]
    /\ refcounts' = [refcounts EXCEPT ![ROOT_INO] = 1]
    /\ ilocks' = [ilocks EXCEPT !["n2i"].w = 0, !["i2n"].w = 0]
    /\ ipc' = [ipc EXCEPT ![t] = "idle"]
    /\ UNCHANGED <<next_ino, iarg, kref, stable, gocBad>>
    /\ UNCHANGED notInode

InodeNext ==
    \/ \E t \in Threads, n \in NodeIds : GocCall(t, n)
    \/ \E t \in Threads : GocReadN2I(t)
    \/ \E t \in Threads : GocCheck(t)
    \/ \E t \in Threads : GocFastReturn(t)
    \/ \E t \in Threads : GocAlloc(t)
    \/ \E t \in Threads : GocWriteN2I(t)
    \/ \E t \in Threads : GocWriteI2N(t)
    \/ \E t \in Threads : GocInsert(t)
    \/ \E t \in Threads, i \in Inos, nl \in 1..MaxRef : ForgetCall(t, i, nl)
    \/ \E t \in Threads : ForgetWriteN2I(t)
    \/ \E t \in Threads : ForgetWriteI2N(t)
    \/ \E t \in Threads : ForgetRemove(t)


(***************************************************************************)
(* Cache (cache.rs). Time is counted in ticks; the LRU capacities (10000,   *)
(* 1000, 5000 entries) exceed the key space of the model, so no entry is    *)
(* evicted for capacity.                                                    *)
(***************************************************************************)
MaxNew == 1
MaxTime == 1
\* Cache::ttl (config.cache_ttl, default 300 s) and Cache::negative_ttl (60 s), in ticks
CACHE_TTL == 1
NEGATIVE_TTL == 1

ROOT_ID == 0
Ids == 0..MaxNew
\* the keys the cache maps range over: the node ids, and one id more for a
\* subtree two levels deep
CacheIds == 0..(MaxNew + 1)
Names == {"a", "b"}
NoId == -1
NEVER == -1
NoNode == [id |-> NoId, parent_id |-> NoId, name |-> "", kind |-> "", committed |-> FALSE]
NoEntry == [node |-> NoNode, expires_at |-> NEVER, present |-> FALSE]
NoListing == [children |-> {}, expires_at |-> NEVER, present |-> FALSE]

\* Cache::new
CacheNew ==
    [nodes |-> [i \in CacheIds |-> NoEntry],
     children |-> [i \in CacheIds |-> NoListing],
     parents |-> [i \in CacheIds |-> NoId],
     negative |-> [k \in CacheIds \X Names |-> 0]]

\* CachePolicy -> expires_at: Mutable(ttl) => Some(now + ttl), Immutable => None
ExpiresAt(policy) == IF policy = "immutable" THEN NEVER ELSE now + CACHE_TTL

\* an entry is served when it is immutable or expires > Instant::now()
Live(expires_at) == expires_at = NEVER \/ expires_at > now

\* put_node_with_policy: parents index from node.parent_id, then the node entry
put_node_with_policy(c, node, policy) ==
    [c EXCEPT !.parents[node.id] = IF node.parent_id # NoId THEN node.parent_id ELSE @,
              !.nodes[node.id] = [node |-> node, expires_at |-> ExpiresAt(policy), present |-> TRUE]]

put_node(c, node) == put_node_with_policy(c, node, "mutable")

\* get_node: the cached node, or NoNode; an expired entry is popped
get_node(c, id) ==
    IF c.nodes[id].present /\ Live(c.nodes[id].expires_at) THEN c.nodes[id].node ELSE NoNode
get_node_cache(c, id) ==
    IF c.nodes[id].present /\ ~Live(c.nodes[id].expires_at)
    THEN [c EXCEPT !.nodes[id] = NoEntry] ELSE c

\* put_children_with_policy: per child parents.put(child.id, parent_id) and
\* put_node_with_policy(child), then the listing; the negative map is not touched
put_children_with_policy(c, parent_id, children, policy) ==
    [c EXCEPT !.parents = [i \in CacheIds |->
                  IF \E ch \in children : ch.id = i
                  THEN LET ch == CHOOSE x \in children : x.id = i
                       IN IF ch.parent_id # NoId THEN ch.parent_id ELSE parent_id
                  ELSE @[i]],
              !.nodes = [i \in CacheIds |->
                  IF \E ch \in children : ch.id = i
                  THEN [node |-> CHOOSE x \in children : x.id = i,
                        expires_at |-> ExpiresAt(policy), present |-> TRUE]
                  ELSE @[i]],
              !.children[parent_id] =
                  [children |-> children, expires_at |-> ExpiresAt(policy), present |-> TRUE]]

put_children(c, parent_id, children) == put_children_with_policy(c, parent_id, children, "mutable")
bulk_load(c, parent_id, children) == put_children_with_policy(c, parent_id, children, "immutable")

\* get_children: hit when present and live; an expired listing is popped
get_children_hit(c, parent_id) ==
    c.children[parent_id].present /\ Live(c.children[parent_id].expires_at)
get_children_cache(c, parent_id) ==
    IF c.children[parent_id].present /\ ~Live(c.children[parent_id].expires_at)
    THEN [c EXCEPT !.children[parent_id] = NoListing] ELSE c

\* invalidate_children: children.pop(parent_id)
invalidate_children_mut(c, parent_id) == c
invalidate_children(c, parent_id) == [c EXCEPT !.children[parent_id] = NoListing]

\* invalidate_node: pop the parent's listing (via the parents index), the node, its own listing
invalidate_node(c, id) ==
    LET pid == c.parents[id]
        c1 == [c EXCEPT !.parents[id] = NoId]
        c2 == IF pid # NoId THEN [c1 EXCEPT !.children[pid] = NoListing] ELSE c1
    IN [c2 EXCEPT !.nodes[id] = NoEntry, !.children[id] = NoListing]

\* put_negative: negative.put((parent, name), now + negative_ttl)
put_negative(c, parent_id, name) ==
    [c EXCEPT !.negative[<<parent_id, name>>] = now + NEGATIVE_TTL]

\* is_negative: true iff the entry exists and expires_at > now; an expired entry is popped
is_negativeMut(c, parent_id, name) == c.negative[<<parent_id, name>>] # 0
is_negative(c, parent_id, name) ==
    c.negative[<<parent_id, name>>] # 0 /\ c.negative[<<parent_id, name>>] > now
is_negative_cache(c, parent_id, name) ==
    IF c.negative[<<parent_id, name>>] # 0 /\ ~(c.negative[<<parent_id, name>>] > now)
    THEN [c EXCEPT !.negative[<<parent_id, name>>] = 0] ELSE c

\* invalidate_negative: negative.pop((parent, name))
invalidate_negative(c, parent_id, name) ==
    [c EXCEPT !.negative[<<parent_id, name>>] = 0]

(***************************************************************************)
(* The remote tree behind the API (external collaborator): names are unique *)
(* within a parent; all nodes of the model are folders.                     *)
(***************************************************************************)
Absent == [exists |-> FALSE, parent |-> NoId, name |-> "", committed |-> FALSE]
Deleted == [exists |-> FALSE, parent |-> NoId, name |-> "deleted", committed |-> FALSE]
SrvNode(id) == [id |-> id, parent_id |-> srv[id].parent, name |-> srv[id].name,
                kind |-> "folder", committed |-> srv[id].committed]
SrvChildrenIds(p) == {i \in Ids : srv[i].exists /\ srv[i].parent = p}
SrvChildren(p) == {SrvNode(i) : i \in SrvChildrenIds(p)}
RECURSIVE SrvDesc(_, _)
SrvDesc(p, depth) ==
    IF depth = 0 THEN {}
    ELSE SrvChildrenIds(p) \cup UNION {SrvDesc(i, depth - 1) : i \in SrvChildrenIds(p)}
SrvManifest(p) == {SrvNode(i) : i \in SrvDesc(p, Cardinality(Ids))}
SrvResolve(p, name) ==
    IF \E i \in SrvChildrenIds(p) : srv[i].name = name
    THEN SrvNode(CHOOSE i \in SrvChildrenIds(p) : srv[i].name = name) ELSE NoNode
SrvFreeIds == {i \in Ids : srv[i] = Absent}
SrvDelete(id) ==
    [i \in Ids |-> IF i = id \/ i \in SrvDesc(id, Cardinality(Ids))
                   THEN Deleted ELSE srv[i]]

(***************************************************************************)
(* RosetFs directory operations (fs.rs). The kernel binding dispatches one  *)
(* request at a time (&mut self), so each handler is one action.            *)
(***************************************************************************)
\* resolve_child: negative cache, then the cached listing, then the API
\* (api = "ok" or "error"); returns the cache after the call and the outcome
resolve_child(c, parent_id, name, api) ==
    LET c1 == is_negative_cache(c, parent_id, name)
        c2 == get_children_cache(c1, parent_id)
    IN IF is_negative(c, parent_id, name)
       THEN [cache |-> c1, res |-> "none", node |-> NoNode]
       ELSE IF get_children_hit(c1, parent_id)
               /\ \E ch \in c1.children[parent_id].children : ch.name = name
       THEN [cache |-> c2, res |-> "some",
             node |-> CHOOSE ch \in c1.children[parent_id].children : ch.name = name]
       ELSE IF api = "error"
       THEN [cache |-> c2, res |-> "err", node |-> NoNode]
       ELSE IF SrvResolve(parent_id, name) # NoNode
       THEN [cache |-> put_node(c2, SrvResolve(parent_id, name)), res |-> "some",
             node |-> SrvResolve(parent_id, name)]
       ELSE [cache |-> put_negative(c2, parent_id, name), res |-> "none", node |-> NoNode]

\* the number of client.resolve calls resolve_child makes: none when the
\* negative cache or the cached listing answers, one otherwise
resolve_calls(c, parent_id, name) ==
    IF is_negative(c, parent_id, name) THEN 0
    ELSE IF get_children_hit(is_negative_cache(c, parent_id, name), parent_id)
            /\ \E ch \in c.children[parent_id].children : ch.name = name
    THEN 0 ELSE 1

NoLk == [p |-> NoId, n |-> "", calls |-> 0, flip |-> FALSE]
NoHr == [op |-> "none", a |-> 0, b |-> 0, code |-> "none", n |-> 0, flip |-> FALSE]

DirInit ==
    /\ now = 0
    /\ lk = NoLk
    /\ hr = NoHr
    /\ \E rc \in BOOLEAN :
          /\ srv = [i \in Ids |-> IF i = ROOT_ID
                                  THEN [exists |-> TRUE, parent |-> NoId, name |-> "", committed |-> rc]
                                  ELSE Absent]
          /\ cache = put_node(CacheNew, [id |-> ROOT_ID, parent_id |-> NoId, name |-> "",
                                         kind |-> "folder", committed |-> rc])
    /\ known = {ROOT_ID}
    /\ read_only \in BOOLEAN
    /\ freply = "none"
    /\ cachedAfter = {}
    /\ staleServe = FALSE

DirIdle ==
    /\ cache = CacheNew
    /\ lk = NoLk
    /\ hr = NoHr
    /\ now = 0
    /\ srv = [i \in Ids |-> Absent]
    /\ known = {}
    /\ read_only = FALSE
    /\ freply = "none"
    /\ cachedAfter = {}
    /\ staleServe = FALSE

Tick ==
    /\ now < MaxTime
    /\ now' = now + 1
    /\ UNCHANGED <<cache, srv, known, read_only, freply, cachedAfter, staleServe>>
    /\ UNCHANGED notDir

\* lookup(parent, name)
Lookup(p, name, api) ==
    /\ p \in known
    /\ LET r == resolve_child(cache, p, name, api)
       IN /\ cache' = r.cache
          /\ known' = IF r.res = "some" THEN known \cup {r.node.id} ELSE known
          /\ freply' = IF r.res = "some" THEN "entry" ELSE IF r.res = "none" THEN "ENOENT" ELSE "EIO"
    /\ UNCHANGED <<now, srv, read_only, cachedAfter, staleServe>>
    /\ UNCHANGED notDir

\* lookup(parent, name), observed: the arguments and the number of resolve calls
LookupCounted(p, name, api) ==
    /\ p \in known
    /\ LET r == resolve_child(cache, p, name, api)
       IN /\ cache' = r.cache
          /\ known' = IF r.res = "some" THEN known \cup {r.node.id} ELSE known
          /\ freply' = IF r.res = "some" THEN "entry" ELSE IF r.res = "none" THEN "ENOENT" ELSE "EIO"
    /\ lk' = [p |-> p, n |-> name, calls |-> resolve_calls(cache, p, name), flip |-> ~lk.flip]
    /\ UNCHANGED <<now, srv, read_only, cachedAfter, staleServe>>
    /\ UNCHANGED <<inodeVars, clientVars, supVars, upVars, urlVars, probeVars, hydVars, hr>>

\* readdir(ino): cached listing, or get_manifest (committed) / list_all_children; the
\* entries carry inode numbers but give the kernel no lookup reference
Readdir(p, api, manifest) ==
    /\ p \in known
    /\ IF get_children_hit(cache, p)
       THEN /\ cache' = cache
            /\ freply' = "cached"
            /\ staleServe' = (staleServe \/ p \notin cachedAfter)
            /\ UNCHANGED cachedAfter
       ELSE LET c1 == get_node_cache(get_children_cache(cache, p), p)
                is_committed == get_node(cache, p).committed
                listing == IF is_committed /\ manifest = "ok" THEN SrvManifest(p) ELSE SrvChildren(p)
            IN IF api = "error" \/ ~srv[p].exists
               THEN /\ cache' = c1
                    /\ freply' = IF api = "error" THEN "EIO" ELSE "ENOENT"
                    /\ UNCHANGED <<cachedAfter, staleServe>>
               ELSE /\ cache' = IF is_committed THEN bulk_load(c1, p, listing)
                                ELSE put_children(c1, p, listing)
                    /\ freply' = IF is_committed /\ manifest = "ok" THEN "manifest" ELSE "listed"
                    /\ cachedAfter' = cachedAfter \cup {p}
                    /\ UNCHANGED staleServe
    /\ UNCHANGED <<now, srv, known, read_only>>
    /\ UNCHANGED notDir

\* mkdir(parent, name): create_node, then invalidate_children, invalidate_negative, put_node
Mkdir(p, name, api) ==
    /\ p \in known
    /\ IF read_only
       THEN /\ freply' = "EROFS"
            /\ UNCHANGED <<cache, srv, known, cachedAfter>>
       ELSE IF api = "error" \/ ~srv[p].exists \/ SrvResolve(p, name) # NoNode
       THEN /\ freply' = IF api = "error" THEN "EIO"
                         ELSE IF ~srv[p].exists THEN "ENOENT" ELSE "EBUSY"
            /\ UNCHANGED <<cache, srv, known, cachedAfter>>
       ELSE LET id == CHOOSE i \in SrvFreeIds : TRUE
                node == [id |-> id, parent_id |-> p, name |-> name, kind |-> "folder",
                         committed |-> FALSE]
            IN /\ SrvFreeIds # {}
               /\ srv' = [srv EXCEPT ![id] = [exists |-> TRUE, parent |-> p, name |-> name,
                                              committed |-> FALSE]]
               /\ cache' = put_node(invalidate_negative(invalidate_children(cache, p), p, name), node)
               /\ known' = known \cup {id}
               /\ freply' = "created"
               /\ cachedAfter' = cachedAfter \ {p}
    /\ UNCHANGED <<now, read_only, staleServe>>
    /\ UNCHANGED notDir

\* rmdir / unlink(parent, name): resolve_child, delete_node, invalidate_children, invalidate_node
Rmdir(p, name, api, api2) ==
    /\ p \in known
    /\ IF read_only
       THEN /\ freply' = "EROFS"
            /\ UNCHANGED <<cache, srv, cachedAfter>>
       ELSE LET r == resolve_child(cache, p, name, api)
            IN IF r.res # "some"
               THEN /\ cache' = r.cache
                    /\ freply' = IF r.res = "none" THEN "ENOENT" ELSE "EIO"
                    /\ UNCHANGED <<srv, cachedAfter>>
               ELSE IF api2 = "error" \/ ~srv[r.node.id].exists
               THEN /\ cache' = r.cache
                    /\ freply' = IF api2 = "error" THEN "EIO" ELSE "ENOENT"
                    /\ UNCHANGED <<srv, cachedAfter>>
               ELSE /\ srv' = SrvDelete(r.node.id)
                    /\ cache' = invalidate_node(invalidate_children(r.cache, p), r.node.id)
                    /\ freply' = "ok"
                    /\ cachedAfter' = cachedAfter \ {p}
    /\ UNCHANGED <<now, known, read_only, staleServe>>
    /\ UNCHANGED notDir

\* rename(parent, name, newparent, newname): resolve_child, move_node, invalidate both listings
Rename(p, name, np, newname, api, api2) ==
    /\ p \in known
    /\ np \in known
    /\ IF read_only
       THEN /\ freply' = "EROFS"
            /\ UNCHANGED <<cache, srv, cachedAfter>>
       ELSE LET r == resolve_child(cache, p, name, api)
            IN IF r.res # "some"
               THEN /\ cache' = r.cache
                    /\ freply' = IF r.res = "none" THEN "ENOENT" ELSE "EIO"
                    /\ UNCHANGED <<srv, cachedAfter>>
               ELSE IF \/ api2 = "error"
                       \/ ~srv[r.node.id].exists
                       \/ ~srv[np].exists
                       \/ np = r.node.id
                       \/ np \in SrvDesc(r.node.id, Cardinality(Ids))
                       \/ SrvResolve(np, newname) # NoNode
               THEN /\ cache' = r.cache
                    /\ freply' = IF api2 = "error" THEN "EIO"
                                 ELSE IF ~srv[r.node.id].exists \/ ~srv[np].exists THEN "ENOENT"
                                 ELSE "EBUSY"
                    /\ UNCHANGED <<srv, cachedAfter>>
               ELSE LET id == r.node.id
                        newsrv == [srv EXCEPT ![id].parent = np, ![id].name = newname]
                        updated == [id |-> id, parent_id |-> np, name |-> newname, kind |-> "folder",
                                    committed |-> srv[id].committed]
                        c1 == invalidate_children(r.cache, p)
                        c2 == IF p # np THEN invalidate_children(c1, np) ELSE c1
                    IN /\ srv' = newsrv
                       /\ cache' = put_node(c2, updated)
                       /\ freply' = "ok"
                       /\ cachedAfter' = cachedAfter \ {p, np}
    /\ UNCHANGED <<now, known, read_only, staleServe>>
    /\ UNCHANGED notDir

Api == {"ok", "error"}

\* unlink is the same as rmdir: self.rmdir(_req, parent, name, reply)
Unlink(p, name, api, api2) == Rmdir(p, name, api, api2)

\* setxattr / removexattr(ino, name): EROFS on a read-only mount; else get_node and
\* update_node_metadata in one block_on, then put_node of the updated node
update_xattr(i, api) ==
    /\ i \in known
    /\ IF read_only
       THEN /\ freply' = "EROFS"
            /\ UNCHANGED cache
       ELSE IF api = "error" \/ ~srv[i].exists
       THEN /\ freply' = IF api = "error" THEN "EIO" ELSE "ENOENT"
            /\ UNCHANGED cache
       ELSE /\ cache' = put_node(cache, SrvNode(i))
            /\ freply' = "ok"
    /\ UNCHANGED <<now, srv, known, read_only, cachedAfter, staleServe>>
    /\ UNCHANGED notDir

Setxattr(i, api) == update_xattr(i, api)

Removexattr(i, api) == update_xattr(i, api)

DirNext ==
    \/ Tick
    \/ \E p \in Ids, n \in Names, api \in Api : Lookup(p, n, api)
    \/ \E p \in Ids, api \in Api, mf \in Api : Readdir(p, api, mf)
    \/ \E p \in Ids, n \in Names, api \in Api : Mkdir(p, n, api)
    \/ \E p \in Ids, n \in Names, api \in Api, api2 \in Api : Rmdir(p, n, api, api2)
    \/ \E p \in Ids, n \in Names, np \in Ids, nn \in Names, api \in Api, api2 \in Api :
          Rename(p, n, np, nn, api, api2)

LookupNext ==
    \/ Tick
    \/ \E p \in Ids, n \in Names, api \in Api : LookupCounted(p, n, api)
    \/ \E p \in Ids, n \in Names, api \in Api : Mkdir(p, n, api)
    \/ \E p \in Ids, n \in Names, api \in Api, api2 \in Api : Rmdir(p, n, api, api2)

(***************************************************************************)
(* The Cache interface on its own: any sequence of put_node, put_children, *)
(* bulk_load and invalidate calls, with the nodes and listings the API     *)
(* returns for a committed tree root / a / b.                              *)
(***************************************************************************)
TreeNode(i) ==
    [id |-> i, parent_id |-> IF i = ROOT_ID THEN NoId ELSE i - 1,
     name |-> IF i = ROOT_ID THEN "" ELSE IF i = ROOT_ID + 1 THEN "a" ELSE "b",
     kind |-> "folder", committed |-> TRUE]
\* list_all_children(p): the direct children
TreeChildren(p) == {TreeNode(i) : i \in {j \in CacheIds : j = p + 1}}
\* get_manifest(p): the flat listing of the whole subtree below p
TreeManifest(p) == {TreeNode(i) : i \in {j \in CacheIds : j > p}}

CachePutNode(i) ==
    /\ cache' = put_node(cache, TreeNode(i))
    /\ UNCHANGED <<now, srv, known, read_only, freply, cachedAfter, staleServe>>
    /\ UNCHANGED notDir

CachePutChildren(p) ==
    /\ cache' = put_children(cache, p, TreeChildren(p))
    /\ UNCHANGED <<now, srv, known, read_only, freply, cachedAfter, staleServe>>
    /\ UNCHANGED notDir

CacheBulkLoad(p) ==
    /\ cache' = bulk_load(cache, p, TreeManifest(p))
    /\ UNCHANGED <<now, srv, known, read_only, freply, cachedAfter, staleServe>>
    /\ UNCHANGED notDir

CacheInvalidateNode(i) ==
    /\ cache' = invalidate_node(cache, i)
    /\ UNCHANGED <<now, srv, known, read_only, freply, cachedAfter, staleServe>>
    /\ UNCHANGED notDir

CacheInvalidateChildren(p) ==
    /\ cache' = invalidate_children(cache, p)
    /\ UNCHANGED <<now, srv, known, read_only, freply, cachedAfter, staleServe>>
    /\ UNCHANGED notDir

CacheNext ==
    \/ \E i \in CacheIds : CachePutNode(i)
    \/ \E p \in CacheIds : CachePutChildren(p)
    \/ \E p \in CacheIds : CacheBulkLoad(p)
    \/ \E i \in CacheIds : CacheInvalidateNode(i)
    \/ \E p \in CacheIds : CacheInvalidateChildren(p)

(***************************************************************************)
(* RosetClient (client/mod.rs, client.rs): the retry loop of the JSON calls *)
(* and the two delete_node implementations. A response is a status code and *)
(* whether its body decodes; status 0 stands for a network error.           *)
(***************************************************************************)
MaxRetries == 3
MAX_DELAY_MS == 10000
NetworkError == 0
BackoffChoices == {100, 3000, 6000}
Statuses == {200, 403, 404, 429, 503}
Responses ==
    {[status |-> st, body |-> TRUE] : st \in Statuses \cup {NetworkError}}
        \cup {[status |-> 200, body |-> FALSE]}

\* StatusCode::is_success, is_server_error
is_success(status) == status >= 200 /\ status < 300
is_server_error(status) == status >= 500 /\ status < 600

\* ApiError::from_status / RosetClient::handle_status
from_status(status) ==
    IF status = 401 THEN "Unauthorized"
    ELSE IF status = 403 THEN "Forbidden"
    ELSE IF status = 404 THEN "NotFound"
    ELSE IF status = 409 THEN "LeaseConflict"
    ELSE IF status = 429 THEN "RateLimited"
    ELSE "ServerError"

\* the responses execute_request retries: 429, 5xx, network error
IsRetryableMut(status) ==
    status = 429 \/ is_server_error(status) \/ status = NetworkError \/ status = 404
IsRetryable(status) ==
    status = 429 \/ is_server_error(status) \/ status = NetworkError

\* delay_ms = std::cmp::min(delay_ms * 2, 10000)
NextDelay(d) == Min(d * 2, MAX_DELAY_MS)

ClientInit ==
    /\ ccfg \in [max_retries : 1..MaxRetries, initial_backoff_ms : BackoffChoices]
    /\ cop = "none"
    /\ cpc = "idle"
    /\ attempt = 0
    /\ delay_ms = 0
    /\ chist = <<>>
    /\ csleeps = <<>>
    /\ cresult = "pending"

ClientIdle ==
    /\ ccfg = [max_retries |-> 1, initial_backoff_ms |-> 100]
    /\ cop = "none"
    /\ cpc = "idle"
    /\ attempt = 0
    /\ delay_ms = 0
    /\ chist = <<>>
    /\ csleeps = <<>>
    /\ cresult = "pending"

\* a call starts: let mut attempt = 0; let mut delay_ms = self.config.initial_backoff_ms
ClientCall(op) ==
    /\ cpc \in {"idle", "done"}
    /\ cop' = op
    /\ cpc' = "send"
    /\ attempt' = 0
    /\ delay_ms' = ccfg.initial_backoff_ms
    /\ chist' = <<>>
    /\ csleeps' = <<>>
    /\ cresult' = "pending"
    /\ UNCHANGED ccfg
    /\ UNCHANGED notClient

Return(value) ==
    /\ cresult' = value
    /\ cpc' = "done"

\* execute_request, one pass of the loop: attempt += 1, send, match on the result
ExecuteRequest(resp) ==
    /\ cop = "json"
    /\ cpc = "send"
    /\ attempt' = attempt + 1
    /\ chist' = Append(chist, resp.status)
    /\ IF resp.status # NetworkError /\ is_success(resp.status)
       THEN Return(IF resp.body THEN "Ok" ELSE "NetworkError")
       ELSE IF IsRetryable(resp.status)
       THEN IF attempt + 1 >= ccfg.max_retries
            THEN Return(IF resp.status = NetworkError THEN "NetworkError"
                        ELSE from_status(resp.status))
            ELSE cpc' = "sleep" /\ UNCHANGED cresult
       ELSE Return(from_status(resp.status))
    /\ UNCHANGED <<ccfg, cop, delay_ms, csleeps>>
    /\ UNCHANGED notClient

\* RosetClient::delete_node (client/mod.rs), one pass of its own loop
DeleteNode(resp) ==
    /\ cop = "delete"
    /\ cpc = "send"
    /\ attempt' = attempt + 1
    /\ chist' = Append(chist, resp.status)
    /\ IF resp.status = NetworkError
       THEN IF attempt + 1 >= ccfg.max_retries
            THEN Return("NetworkError")
            ELSE cpc' = "sleep" /\ UNCHANGED cresult
       ELSE IF is_success(resp.status)
       THEN Return("Ok")
       ELSE IF attempt + 1 >= ccfg.max_retries
       THEN Return(from_status(resp.status))
       ELSE IF is_server_error(resp.status) \/ resp.status = 429
       THEN cpc' = "sleep" /\ UNCHANGED cresult
       ELSE Return(from_status(resp.status))
    /\ UNCHANGED <<ccfg, cop, delay_ms, csleeps>>
    /\ UNCHANGED notClient

\* RosetClient::delete_node (client.rs): one request, no retry
DeleteNodeLegacy(resp) ==
    /\ cop = "delete_legacy"
    /\ cpc = "send"
    /\ attempt' = attempt + 1
    /\ chist' = Append(chist, resp.status)
    /\ IF resp.status = NetworkError
       THEN Return("NetworkError")
       ELSE IF ~is_success(resp.status)
       THEN Return(from_status(resp.status))
       ELSE Return("Ok")
    /\ UNCHANGED <<ccfg, cop, delay_ms, csleeps>>
    /\ UNCHANGED notClient

\* tokio::time::sleep(Duration::from_millis(delay_ms)); delay_ms = min(delay_ms * 2, 10000)
ClientSleep ==
    /\ cpc = "sleep"
    /\ csleeps' = Append(csleeps, delay_ms)
    /\ delay_ms' = NextDelay(delay_ms)
    /\ cpc' = "send"
    /\ UNCHANGED <<ccfg, cop, attempt, chist, cresult>>
    /\ UNCHANGED notClient

ClientNext ==
    \/ \E op \in {"json", "delete", "delete_legacy"} : ClientCall(op)
    \/ \E resp \in Responses : ExecuteRequest(resp)
    \/ \E resp \in Responses : DeleteNode(resp)
    \/ \E resp \in Responses : DeleteNodeLegacy(resp)
    \/ ClientSleep

(***************************************************************************)
(* Supervisor and NodeService (csi/src/supervisor.rs, csi/src/node.rs).     *)
(* Durations are in ticks. Supervisor methods run under the processes       *)
(* mutex, one action each; node_stage_volume takes the mutex twice (the     *)
(* crash-loop check, then register) and the monitor's recovery tasks run    *)
(* concurrently with it.                                                    *)
(***************************************************************************)
MaxClock == 6
\* SupervisorConfig, scaled: health_check_interval 30 s, initial_backoff 1 s,
\* max_backoff 60 s, crash_loop_threshold 5, crash_loop_window 300 s
HEALTH_CHECK_INTERVAL == 1
INITIAL_BACKOFF == 1
MAX_BACKOFF == 2
CRASH_LOOP_THRESHOLD == 3
CRASH_LOOP_WINDOW == 2

Vols == {"vol"}
NoInstant == -1
NoState == [registered |-> FALSE, restart_count |-> 0, restart_window_start |-> NoInstant,
            current_backoff |-> INITIAL_BACKOFF, in_crash_loop |-> FALSE]

\* FuseProcessState::new
FuseProcessStateNew ==
    [registered |-> TRUE, restart_count |-> 0, restart_window_start |-> NoInstant,
     current_backoff |-> INITIAL_BACKOFF, in_crash_loop |-> FALSE]

NoHist == [open |-> NoInstant, count |-> 0, tripped |-> FALSE, last |-> <<>>, checked |-> FALSE]

\* the restart count that marks a crash loop: restart_count >= crash_loop_threshold
CrashLoopReachedMut(count) == count > CRASH_LOOP_THRESHOLD
CrashLoopReached(count) == count >= CRASH_LOOP_THRESHOLD

\* FuseProcessState::record_restart
StateRecordRestart(st) ==
    LET expired == st.restart_window_start # NoInstant
                   /\ sclock - st.restart_window_start > CRASH_LOOP_WINDOW
        s1 == IF expired
              THEN [st EXCEPT !.restart_count = 0, !.restart_window_start = NoInstant,
                              !.current_backoff = INITIAL_BACKOFF]
              ELSE st
        s2 == IF s1.restart_window_start = NoInstant
              THEN [s1 EXCEPT !.restart_window_start = sclock] ELSE s1
        s3 == [s2 EXCEPT !.restart_count = @ + 1]
    IN IF CrashLoopReached(s3.restart_count)
       THEN [s3 EXCEPT !.in_crash_loop = TRUE]
       ELSE [s3 EXCEPT !.current_backoff = Min(@ * 2, MAX_BACKOFF)]

\* ghost: a restart recorded at sclock; a counting window opens at the first restart
\* after the registration or after the previous window has expired
HistRecordRestart(h) ==
    LET fresh == h.open = NoInstant \/ sclock - h.open > CRASH_LOOP_WINDOW
        count == IF fresh THEN 1 ELSE h.count + 1
        all == Append(h.last, sclock)
    IN [h EXCEPT !.open = IF fresh THEN sclock ELSE @,
                 !.count = count,
                 !.tripped = @ \/ count >= CRASH_LOOP_THRESHOLD,
                 !.last = IF Len(all) > CRASH_LOOP_THRESHOLD THEN Tail(all) ELSE all]

\* Supervisor::is_in_crash_loop
is_in_crash_loop(v) == processes[v].registered /\ processes[v].in_crash_loop

\* Supervisor::get_backoff
get_backoff(v) ==
    IF processes[v].registered THEN processes[v].current_backoff ELSE INITIAL_BACKOFF

\* Supervisor::health_check: the volumes that need a restart
health_check == {v \in Vols : processes[v].registered /\ ~processes[v].in_crash_loop /\ ~alive[v]}

SupInit ==
    /\ sclock = 0
    /\ next_check = HEALTH_CHECK_INTERVAL
    /\ processes = [v \in Vols |-> NoState]
    /\ alive = [v \in Vols |-> FALSE]
    /\ tasks = {}
    /\ spc = [v \in Vols |-> "idle"]
    /\ sreply = [v \in Vols |-> "none"]
    /\ ghist = [v \in Vols |-> NoHist]
    /\ keyfile = [v \in Vols |-> FALSE]

SupIdle == SupInit

SupTick ==
    /\ sclock < MaxClock
    /\ sclock' = sclock + 1
    /\ UNCHANGED <<next_check, processes, alive, tasks, spc, sreply, ghist, keyfile>>
    /\ UNCHANGED notSup

\* the mount process of a volume exits or its mount stops answering
ProcessDies(v) ==
    /\ alive[v]
    /\ alive' = [alive EXCEPT ![v] = FALSE]
    /\ UNCHANGED <<sclock, next_check, processes, tasks, spc, sreply, ghist, keyfile>>
    /\ UNCHANGED notSup

\* node_stage_volume, first part: the crash-loop check and the is_mounted check
StageCheck(v, mounted) ==
    /\ spc[v] = "idle"
    /\ alive[v] => mounted
    /\ ghist' = [ghist EXCEPT ![v].checked = ghist[v].tripped]
    /\ IF is_in_crash_loop(v)
       THEN /\ sreply' = [sreply EXCEPT ![v] = "crash_loop"]
            /\ UNCHANGED spc
       ELSE IF mounted
       THEN /\ sreply' = [sreply EXCEPT ![v] = "ok"]
            /\ UNCHANGED spc
       ELSE /\ sreply' = [sreply EXCEPT ![v] = "pending"]
            /\ spc' = [spc EXCEPT ![v] = "spawn"]
    /\ UNCHANGED <<sclock, next_check, processes, alive, tasks, keyfile>>
    /\ UNCHANGED notSup

\* node_stage_volume, second part: write_temp_api_key, spawn_fuse_process, then
\* Supervisor::register, or cleanup_temp_api_key when the spawn failed
StageSpawn(v, ok) ==
    /\ spc[v] = "spawn"
    /\ spc' = [spc EXCEPT ![v] = "idle"]
    /\ keyfile' = [keyfile EXCEPT ![v] = ok]
    /\ IF ok
       THEN /\ alive' = [alive EXCEPT ![v] = TRUE]
            /\ processes' = [processes EXCEPT ![v] = FuseProcessStateNew]
            /\ ghist' = [ghist EXCEPT ![v] = NoHist]
            /\ sreply' = [sreply EXCEPT ![v] = "ok"]
       ELSE /\ sreply' = [sreply EXCEPT ![v] = "error"]
            /\ UNCHANGED <<alive, processes, ghist>>
    /\ UNCHANGED <<sclock, next_check, tasks>>
    /\ UNCHANGED notSup

UnmountResults == {"unmounted", "failed"}

\* the return paths of node_unstage_volume that call cleanup_temp_api_key
cleans_up(unmount) == unmount = "unmounted"

\* node_unstage_volume: Supervisor::unregister, then the unmount.  A staging
\* path that is not mounted, a successful fusermount -u (or -u -z) and an
\* "already unmounted" answer remove the key file and reply Ok; a failure of
\* both the standard and the lazy unmount of a live mount replies an error
Unstage(v, unmount) ==
    /\ unmount = "failed" => alive[v]
    /\ processes' = [processes EXCEPT ![v] = NoState]
    /\ ghist' = [ghist EXCEPT ![v] = NoHist]
    /\ alive' = IF unmount = "unmounted" THEN [alive EXCEPT ![v] = FALSE] ELSE alive
    /\ keyfile' = IF cleans_up(unmount) THEN [keyfile EXCEPT ![v] = FALSE] ELSE keyfile
    /\ UNCHANGED <<sclock, next_check, tasks, spc, sreply>>
    /\ UNCHANGED notSup

\* start_monitor, one turn of the loop: health_check, then a recovery task per issue
Monitor ==
    /\ sclock >= next_check
    /\ next_check' = sclock + HEALTH_CHECK_INTERVAL
    /\ tasks' = tasks \cup {[vol |-> v, launched |-> sclock, wake |-> sclock + get_backoff(v)] :
                               v \in health_check}
    /\ UNCHANGED <<sclock, processes, alive, spc, sreply, ghist, keyfile>>
    /\ UNCHANGED notSup

\* a recovery task after its sleep: spawn_fuse_process, update_pid, record_restart
Recovery(task, ok) ==
    /\ task \in tasks
    /\ sclock >= task.wake
    /\ tasks' = tasks \ {task}
    /\ alive' = IF ok THEN [alive EXCEPT ![task.vol] = TRUE] ELSE alive
    /\ IF processes[task.vol].registered
       THEN /\ processes' = [processes EXCEPT ![task.vol] = StateRecordRestart(@)]
            /\ ghist' = [ghist EXCEPT ![task.vol] = HistRecordRestart(@)]
       ELSE UNCHANGED <<processes, ghist>>
    /\ UNCHANGED <<sclock, next_check, spc, sreply, keyfile>>
    /\ UNCHANGED notSup

SupNext ==
    \/ SupTick
    \/ \E v \in Vols : ProcessDies(v)
    \/ \E v \in Vols, mounted \in BOOLEAN : StageCheck(v, mounted)
    \/ \E v \in Vols, ok \in BOOLEAN : StageSpawn(v, ok)
    \/ \E v \in Vols, unmount \in UnmountResults : Unstage(v, unmount)
    \/ Monitor
    \/ \E task \in tasks, ok \in BOOLEAN : Recovery(task, ok)

(***************************************************************************)
(* The restart loop under SupervisorConfig::default(), in seconds: one     *)
(* registered volume whose health check fails on every turn of the monitor *)
(* loop, because every child the supervisor spawns for it exits at once.   *)
(* A timer fires at its deadline or at most MaxLate seconds after it.      *)
(***************************************************************************)
LoopHorizon == 200
MaxLate == 1

\* SupervisorConfig::default
DefaultConfig ==
    [health_check_interval |-> 30, initial_backoff |-> 1, max_backoff |-> 60,
     crash_loop_threshold |-> 5, crash_loop_window |-> 300]

\* FuseProcessState::record_restart(config) at Instant::now() = instant
record_restartMut(st, config, instant) ==
    [st EXCEPT !.restart_count = @ + 1,
               !.restart_window_start = IF @ = NoInstant THEN instant ELSE @,
               !.current_backoff = Min(@ * 2, config.max_backoff)]

record_restart(st, config, instant) ==
    LET expired == st.restart_window_start # NoInstant
                   /\ instant - st.restart_window_start > config.crash_loop_window
        s1 == IF expired
              THEN [st EXCEPT !.restart_count = 0, !.restart_window_start = NoInstant,
                              !.current_backoff = config.initial_backoff]
              ELSE st
        s2 == IF s1.restart_window_start = NoInstant
              THEN [s1 EXCEPT !.restart_window_start = instant] ELSE s1
        s3 == [s2 EXCEPT !.restart_count = @ + 1]
    IN IF s3.restart_count >= config.crash_loop_threshold
       THEN [s3 EXCEPT !.in_crash_loop = TRUE]
       ELSE [s3 EXCEPT !.current_backoff = Min(@ * 2, config.max_backoff)]

\* the volume is staged and registered, and its child has just exited
LoopInit ==
    /\ sclock = 0
    /\ next_check = DefaultConfig.health_check_interval
    /\ processes = [v \in Vols |-> [FuseProcessStateNew EXCEPT
                                       !.current_backoff = DefaultConfig.initial_backoff]]
    /\ alive = [v \in Vols |-> FALSE]
    /\ tasks = {}
    /\ spc = [v \in Vols |-> "idle"]
    /\ sreply = [v \in Vols |-> "ok"]
    /\ ghist = [v \in Vols |-> NoHist]
    /\ keyfile = [v \in Vols |-> TRUE]

\* a second passes, unless a timer is overdue by MaxLate
LoopTick ==
    /\ sclock < LoopHorizon
    /\ sclock < next_check + MaxLate
    /\ \A task \in tasks : sclock < task.wake + MaxLate
    /\ sclock' = sclock + 1
    /\ UNCHANGED <<next_check, processes, alive, tasks, spc, sreply, ghist, keyfile>>
    /\ UNCHANGED notSup

\* start_monitor, one turn of the loop: health_check reports every registered
\* volume that is not in a crash loop; a recovery task is spawned per issue
LoopMonitor ==
    /\ sclock >= next_check
    /\ next_check' = sclock + DefaultConfig.health_check_interval
    /\ tasks' = tasks \cup {[vol |-> v, launched |-> sclock,
                              wake |-> sclock + processes[v].current_backoff] :
                               v \in {w \in Vols : processes[w].registered
                                                    /\ ~processes[w].in_crash_loop}}
    /\ UNCHANGED <<sclock, processes, alive, spc, sreply, ghist, keyfile>>
    /\ UNCHANGED notSup

\* a recovery task after its sleep: spawn_fuse_process succeeds or fails, the
\* restart is recorded either way, and the child, if any, exits at once
LoopRecovery(task, ok) ==
    /\ task \in tasks
    /\ sclock >= task.wake
    /\ tasks' = tasks \ {task}
    /\ processes' = [processes EXCEPT ![task.vol] = record_restart(@, DefaultConfig, sclock)]
    /\ UNCHANGED <<sclock, next_check, alive, spc, sreply, ghist, keyfile>>
    /\ UNCHANGED notSup

LoopNext ==
    \/ LoopTick
    \/ LoopMonitor
    \/ \E task \in tasks, ok \in BOOLEAN : LoopRecovery(task, ok)

(***************************************************************************)
(* The mount-responsiveness probe (supervisor.rs).  health_check walks the *)
(* process table under the processes mutex; for a volume whose process is  *)
(* alive it spawns a thread that stats the staging path and joins it.  The *)
(* processes of the probe model stay alive; their mounts may start to hang.*)
(***************************************************************************)
ProbeVols == {"v1", "v2"}
ApiOps == {"register", "unregister", "is_in_crash_loop"}
NoCall == [op |-> "none", vol |-> "none"]

ProbeInit ==
    /\ pmutex = "free"
    /\ ppc = "idle"
    /\ ptodo = {}
    /\ pcur = "none"
    /\ preg = {}
    /\ hung = {}
    /\ apc = NoCall

ProbeIdle == ProbeInit

\* the FUSE daemon of a volume stops answering: a stat of its mount blocks
Hang(v) ==
    /\ v \notin hung
    /\ hung' = hung \cup {v}
    /\ UNCHANGED <<pmutex, ppc, ptodo, pcur, preg, apc>>
    /\ UNCHANGED notProbe

\* a gRPC handler calls register, unregister or is_in_crash_loop ...
ApiCall(op, v) ==
    /\ apc = NoCall
    /\ apc' = [op |-> op, vol |-> v]
    /\ UNCHANGED <<pmutex, ppc, ptodo, pcur, preg, hung>>
    /\ UNCHANGED notProbe

\* ... which locks self.processes, acts on the table and unlocks
ApiRun ==
    /\ apc # NoCall
    /\ pmutex = "free"
    /\ preg' = CASE apc.op = "register" -> preg \cup {apc.vol}
                 [] apc.op = "unregister" -> preg \ {apc.vol}
                 [] OTHER -> preg
    /\ apc' = NoCall
    /\ UNCHANGED <<pmutex, ppc, ptodo, pcur, hung>>
    /\ UNCHANGED notProbe

\* health_check: if let Ok(mut processes) = self.processes.lock()
HcLock ==
    /\ ppc = "idle"
    /\ pmutex = "free"
    /\ pmutex' = "monitor"
    /\ ppc' = "iter"
    /\ ptodo' = preg
    /\ UNCHANGED <<pcur, preg, hung, apc>>
    /\ UNCHANGED notProbe

\* is_mount_healthy: thread::spawn(move || fs::metadata(&path).is_ok())
HcProbe(v) ==
    /\ ppc = "iter"
    /\ v \in ptodo
    /\ pcur' = v
    /\ ppc' = "join"
    /\ UNCHANGED <<pmutex, ptodo, preg, hung, apc>>
    /\ UNCHANGED notProbe

\* the stat of the staging path returns only when the mount answers
stat_returns(v) == v \notin hung

\* is_mount_healthy: handle.join() returns when the stat thread has finished
HcJoin ==
    /\ ppc = "join"
    /\ stat_returns(pcur)
    /\ ptodo' = ptodo \ {pcur}
    /\ pcur' = "none"
    /\ ppc' = "iter"
    /\ UNCHANGED <<pmutex, preg, hung, apc>>
    /\ UNCHANGED notProbe

\* the end of the iteration: the guard is dropped and the results returned
HcUnlock ==
    /\ ppc = "iter"
    /\ ptodo = {}
    /\ pmutex' = "free"
    /\ ppc' = "idle"
    /\ UNCHANGED <<ptodo, pcur, preg, hung, apc>>
    /\ UNCHANGED notProbe

ProbeNext ==
    \/ \E v \in ProbeVols : Hang(v)
    \/ \E op \in ApiOps, v \in ProbeVols : ApiCall(op, v)
    \/ ApiRun
    \/ HcLock
    \/ \E v \in ProbeVols : HcProbe(v)
    \/ HcJoin
    \/ HcUnlock

(***************************************************************************)
(* Startup hydration against stage_file (staging.rs).  StagingManager::new *)
(* spawns the scan of the staging directory as a task and returns; the     *)
(* mount serves requests while the scan runs.  Job "old" is what an        *)
(* earlier run may have left behind; job "new" is staged by a release of   *)
(* this run.  Whether a read_dir iteration yields an entry created after   *)
(* it began is unspecified, so the scan may see the new sidecar or end     *)
(* without it.                                                             *)
(***************************************************************************)
HJobs == {"old", "new"}
NoFiles == [data |-> FALSE, job |-> FALSE]
BothFiles == [data |-> TRUE, job |-> TRUE]

\* no staging manager at work
HydIdle ==
    /\ hscan = "todo"
    /\ hseen = {}
    /\ hfiles = [j \in HJobs |-> NoFiles]
    /\ hstage = "idle"
    /\ hchan = <<>>
    /\ hsent = [j \in HJobs |-> 0]

\* the process starts; the earlier run left nothing, a staged job, or a
\* sidecar whose data file is gone
HydInit ==
    /\ hscan = "todo"
    /\ hseen = {}
    /\ \E old \in {NoFiles, BothFiles, [data |-> FALSE, job |-> TRUE]} :
          hfiles = [j \in HJobs |-> IF j = "old" THEN old ELSE NoFiles]
    /\ hstage = "idle"
    /\ hchan = <<>>
    /\ hsent = [j \in HJobs |-> 0]

\* fs::read_dir(&root_clone)
ScanStart ==
    /\ hscan = "todo"
    /\ hscan' = "scanning"
    /\ UNCHANGED <<hseen, hfiles, hstage, hchan, hsent>>
    /\ UNCHANGED notHyd

\* entries.next_entry() yields the sidecar of j: re-queue the job when its data
\* file exists, else remove the orphaned sidecar
ScanEntry(j) ==
    /\ hscan = "scanning"
    /\ j \notin hseen
    /\ hfiles[j].job
    /\ hseen' = hseen \cup {j}
    /\ IF hfiles[j].data
       THEN /\ hchan' = Append(hchan, j)
            /\ hsent' = [hsent EXCEPT ![j] = @ + 1]
            /\ UNCHANGED hfiles
       ELSE /\ hfiles' = [hfiles EXCEPT ![j].job = FALSE]
            /\ UNCHANGED <<hchan, hsent>>
    /\ UNCHANGED <<hscan, hstage>>
    /\ UNCHANGED notHyd

\* next_entry() yields None: every sidecar that was there when the iteration
\* began has been yielded
ScanEnd ==
    /\ hscan = "scanning"
    /\ hfiles["old"].job => "old" \in hseen
    /\ hscan' = "done"
    /\ UNCHANGED <<hseen, hfiles, hstage, hchan, hsent>>
    /\ UNCHANGED notHyd

\* stage_file: fs::rename(source_path, &dest_path)
StageMove ==
    /\ hstage = "idle"
    /\ hstage' = "moved"
    /\ hfiles' = [hfiles EXCEPT !["new"].data = TRUE]
    /\ UNCHANGED <<hscan, hseen, hchan, hsent>>
    /\ UNCHANGED notHyd

\* stage_file: fs::write(&job_file_path, job_json)
StageWriteJob ==
    /\ hstage = "moved"
    /\ hstage' = "written"
    /\ hfiles' = [hfiles EXCEPT !["new"].job = TRUE]
    /\ UNCHANGED <<hscan, hseen, hchan, hsent>>
    /\ UNCHANGED notHyd

\* stage_file: self.sender.send(job)
StageEnqueue ==
    /\ hstage = "written"
    /\ hstage' = "sent"
    /\ hchan' = Append(hchan, "new")
    /\ hsent' = [hsent EXCEPT !["new"] = @ + 1]
    /\ UNCHANGED <<hscan, hseen, hfiles>>
    /\ UNCHANGED notHyd

\* the worker receives a job; an upload that succeeds removes both files, an
\* upload whose data file is gone or that keeps failing leaves the sidecar
HydWorker(ok) ==
    /\ hchan # <<>>
    /\ hchan' = Tail(hchan)
    /\ hfiles' = IF ok /\ hfiles[Head(hchan)].data
                 THEN [hfiles EXCEPT ![Head(hchan)] = NoFiles]
                 ELSE hfiles
    /\ UNCHANGED <<hscan, hseen, hstage, hsent>>
    /\ UNCHANGED notHyd

HydNext ==
    \/ ScanStart
    \/ \E j \in HJobs : ScanEntry(j)
    \/ ScanEnd
    \/ StageMove
    \/ StageWriteJob
    \/ StageEnqueue
    \/ \E ok \in BOOLEAN : HydWorker(ok)

(***************************************************************************)
(* Write path (fs.rs: create, write, fsync, release, open, read) and the   *)
(* staging engine (staging.rs).  One file is created per behaviour and the *)
(* handle table holds one handle at a time.  Sizes are counted in units of *)
(* 10 MiB, so that PART_SIZE is 2.  Local file operations succeed; only    *)
(* the remote API and the part uploads may fail.                           *)
(***************************************************************************)
MaxSize == 5
MaxWrites == 2
MaxCrashes == 2

PART_SIZE == 2
CONCURRENCY == 2
max_attempts == 5

WriteOffsets == {0, 1, 3}
WriteLens == {1, 2}
TruncSizes == {0}
ReadOffsets == {0, 1}
Modes == {"Sync", "Async", "SyncOnFsync"}

needs_stagingMut(mode) == mode = "Async"

\* RosetFs::new: a staging manager exists for Async and SyncOnFsync
needs_staging(mode) == mode \in {"Async", "SyncOnFsync"}

fsync_uploadsMut(h) == h.write_mode

\* RosetFs::fsync: only a dirty handle in write mode has anything to upload
fsync_uploads(h) == h.write_mode /\ h.dirty

backoff_secsMut(n) == 2 * n

\* worker loop: Duration::from_secs(2u64.pow(attempts))
backoff_secs(n) == 2 ^ n

NoFile == <<-1>>
NoHandle == [write_mode |-> FALSE, size |-> -1, dirty |-> FALSE]
NoDataFile == [loc |-> "none", bytes |-> <<>>]
NoJobFile == [loc |-> "none", total_size |-> 0, completed_parts |-> <<>>,
              partial |-> FALSE]
NoReply == [op |-> "none", code |-> "none"]
\* the node of the file, as get_node returns it
FileNode == [id |-> MaxNew, parent_id |-> ROOT_ID, name |-> "a", kind |-> "file",
             committed |-> FALSE]
NoJob == [total_size |-> -1, completed_parts |-> <<>>]
NoInline == [who |-> "none", total_size |-> 0, pending |-> <<>>, parts_vec |-> <<>>]
NoRead == [offset |-> -1, size |-> 0, data |-> NoFile, fresh |-> FALSE]
NoDone == [who |-> "none", size |-> 0, parts |-> <<>>]

\* u64::div_ceil
div_ceil(a, b) == (a + b - 1) \div b

iterationsMut(total_size) == (total_size \div PART_SIZE) + 1
iterations(total_size) ==
    IF total_size > 0 THEN div_ceil(total_size, PART_SIZE) ELSE 1

MaxParts == iterations(MaxSize) + 1
PartNumbers == 1..MaxParts

current_part_size(total_size, offset) ==
    IF total_size > 0 THEN Min(PART_SIZE, total_size - offset) ELSE 0

\* the loop `for part_number in 1..=iterations` that builds pending_parts,
\* skipping the part numbers in existing
RECURSIVE PartLoop(_, _, _, _)
PartLoop(total_size, part_number, offset, existing) ==
    IF part_number > iterations(total_size) THEN <<>>
    ELSE LET size == current_part_size(total_size, offset)
             this == IF part_number \notin existing
                     THEN <<[part_number |-> part_number, off |-> offset, size |-> size]>>
                     ELSE <<>>
         IN  this \o PartLoop(total_size, part_number + 1, offset + size, existing)

existing_partsMut(j) == {}
existing_parts(j) ==
    {j.completed_parts[i].part_number : i \in 1..Len(j.completed_parts)}

\* file.seek(off); file.take(size): the bytes from off, at most size of them,
\* fewer when the file ends first
ReadChunkMut(bytes, off, size) == SubSeq(bytes, 1, Min(size, Len(bytes)))
ReadChunk(bytes, off, size) == SubSeq(bytes, off + 1, Min(off + size, Len(bytes)))

\* file.seek(offset); file.write_all(data): a seek past the end leaves a hole
\* that reads as zeros
WriteAtMut(bytes, offset, data) == bytes \o data

WriteAt(bytes, offset, data) ==
    LET len == Max(Len(bytes), offset + Len(data))
    IN  [i \in 1..len |->
            IF i > offset /\ i <= offset + Len(data) THEN data[i - offset]
            ELSE IF i <= Len(bytes) THEN bytes[i]
            ELSE 0]

\* File::set_len: cut, or extend with zeros
set_len(bytes, new_size) ==
    [i \in 1..new_size |-> IF i <= Len(bytes) THEN bytes[i] ELSE 0]

\* the ETag the object store returns for a part: a digest of its bytes,
\* here the bytes themselves
ETag(chunk) == chunk
Part(part_number, chunk) == [part_number |-> part_number, etag |-> ETag(chunk)]

\* parts_vec.sort_by_key(|p| p.part_number): a stable sort
RECURSIVE InsertPart(_, _)
InsertPart(p, sorted) ==
    IF sorted = <<>> THEN <<p>>
    ELSE IF p.part_number < Head(sorted).part_number THEN <<p>> \o sorted
    ELSE <<Head(sorted)>> \o InsertPart(p, Tail(sorted))

RECURSIVE sort_by_key(_)
sort_by_key(parts) ==
    IF parts = <<>> THEN <<>>
    ELSE InsertPart(parts[Len(parts)], sort_by_key(SubSeq(parts, 1, Len(parts) - 1)))

\* buffer_unordered(CONCURRENCY): the first CONCURRENCY unfinished parts run
Active(pending) == {pending[i] : i \in 1..Min(CONCURRENCY, Len(pending))}

RemovePart(pending, n) ==
    SelectSeq(pending, LAMBDA p : p.part_number # n)

\* The upload service.  A part PUT stores the body under its number; the
\* complete call takes a list in ascending part order whose entries name
\* stored parts by their ETag, and commits their concatenation.
EmptyStore == [n \in PartNumbers |-> NoFile]

CompleteOk(store, list) ==
    /\ list # <<>>
    /\ \A i \in 1..Len(list) :
          /\ store[list[i].part_number] # NoFile
          /\ ETag(store[list[i].part_number]) = list[i].etag
    /\ \A i \in 1..(Len(list) - 1) : list[i].part_number < list[i + 1].part_number

RECURSIVE Assemble(_, _)
Assemble(store, list) ==
    IF list = <<>> THEN <<>>
    ELSE store[Head(list).part_number] \o Assemble(store, Tail(list))

\* GET with `Range: bytes=offset-(offset+size-1)`
download_range(obj, offset, size) ==
    SubSeq(obj, offset + 1, Min(offset + size, Len(obj)))

\* ghost: the part numbers of a part list
\* the part numbers of a list are in ascending order
Ascending(list) ==
    \A i \in 1..Len(list), j \in 1..Len(list) :
        i < j => list[i].part_number < list[j].part_number

RecordedNumbers(list) == {list[i].part_number : i \in 1..Len(list)}

DoneOf(who, total_size, list) ==
    [who |-> who, size |-> total_size,
     parts |-> [i \in 1..Len(list) |-> list[i].part_number]]

\* the mount has just started: no handle, an empty staging directory.  The
\* write path treats SyncOnFsync as it treats Async, the staging
\* specification covers it.
FileInit ==
    /\ durability_mode \in {"Sync", "Async"}
    /\ running = TRUE
    /\ handles = NoHandle
    /\ temp_file = NoFile
    /\ data_file = NoDataFile
    /\ job_file = NoJobFile
    /\ queue = <<>>
    /\ wpc = "recv"
    /\ job = NoJob
    /\ attempts = 0
    /\ pending_parts = <<>>
    /\ put_done = {}
    /\ inl = NoInline
    /\ parts_store = EmptyStore
    /\ object = NoFile
    /\ rreply = NoRead
    /\ created = FALSE
    /\ written = [p \in 0..(MaxSize - 1) |-> 0]
    /\ nwrites = 0
    /\ rsize = -1
    /\ flushed = FALSE
    /\ ofresh = FALSE
    /\ done = NoDone
    /\ reput = FALSE
    /\ accepted = FALSE
    /\ ureply = NoReply
    /\ unsorted = FALSE
    /\ sleeps = <<>>
    /\ crashes = 0
    /\ crash_at = "none"

\* a file has been created and written through its handle: bytes 1..size,
\* the byte at position p being p + 1, not yet synced or released
StagingInit ==
    /\ durability_mode \in Modes
    /\ running = TRUE
    /\ \E size \in 0..MaxSize :
          /\ handles = [write_mode |-> TRUE, size |-> size, dirty |-> TRUE]
          /\ temp_file = [i \in 1..size |-> i]
          /\ written = [p \in 0..(MaxSize - 1) |-> IF p < size THEN p + 1 ELSE 0]
    /\ data_file = NoDataFile
    /\ job_file = NoJobFile
    /\ queue = <<>>
    /\ wpc = "recv"
    /\ job = NoJob
    /\ attempts = 0
    /\ pending_parts = <<>>
    /\ put_done = {}
    /\ inl = NoInline
    /\ parts_store = EmptyStore
    /\ object = NoFile
    /\ rreply = NoRead
    /\ created = TRUE
    /\ nwrites = MaxWrites
    /\ rsize = -1
    /\ flushed = FALSE
    /\ ofresh = FALSE
    /\ done = NoDone
    /\ reput = FALSE
    /\ accepted = FALSE
    /\ ureply = NoReply
    /\ unsorted = FALSE
    /\ sleeps = <<>>
    /\ crashes = 0
    /\ crash_at = "none"

UpIdle ==
    /\ durability_mode = "Sync"
    /\ running = TRUE
    /\ handles = NoHandle
    /\ temp_file = NoFile
    /\ data_file = NoDataFile
    /\ job_file = NoJobFile
    /\ queue = <<>>
    /\ wpc = "recv"
    /\ job = NoJob
    /\ attempts = 0
    /\ pending_parts = <<>>
    /\ put_done = {}
    /\ inl = NoInline
    /\ parts_store = EmptyStore
    /\ object = NoFile
    /\ rreply = NoRead
    /\ created = FALSE
    /\ written = [p \in 0..(MaxSize - 1) |-> 0]
    /\ nwrites = 0
    /\ rsize = -1
    /\ flushed = FALSE
    /\ ofresh = FALSE
    /\ done = NoDone
    /\ reput = FALSE
    /\ accepted = FALSE
    /\ ureply = NoReply
    /\ unsorted = FALSE
    /\ sleeps = <<>>
    /\ crashes = 0
    /\ crash_at = "none"

\* the FUSE session dispatches one request at a time: a handler runs when the
\* process is up and no handler is blocked in an inline upload
Dispatch == running /\ inl.who = "none"

workerVars == <<queue, wpc, job, attempts, pending_parts, put_done>>
diskVars == <<data_file, job_file>>
serverVars == <<parts_store, object>>
writeGhosts == <<written, nwrites, rsize>>
crashGhosts == <<crashes, crash_at>>
callGhosts == <<unsorted, sleeps>>

\* RosetFs::create: init_upload, invalidate_negative, then an empty temp file
\* and a write handle.  The parent directory has changed: a listing of it
\* cached so far no longer postdates its last change
CreateMut(ok) ==
    /\ Dispatch /\ ~created /\ handles = NoHandle
    /\ IF ok
       THEN /\ handles' = [write_mode |-> TRUE, size |-> 0, dirty |-> FALSE]
            /\ temp_file' = <<>>
            /\ created' = TRUE
            /\ cache' = invalidate_negative(cache, FileNode.parent_id, FileNode.name)
            /\ cachedAfter' = cachedAfter \ {FileNode.parent_id}
       ELSE UNCHANGED <<handles, temp_file, created, cache, cachedAfter>>
    /\ UNCHANGED <<durability_mode, running, workerVars, diskVars, serverVars, inl,
                   rreply, writeGhosts, flushed, ofresh, done, reput, accepted,
                   crashGhosts,
                   ureply, callGhosts>>
    /\ UNCHANGED notUpDir

Create(ok) ==
    /\ Dispatch /\ ~created /\ handles = NoHandle
    /\ IF read_only
       THEN /\ ureply' = [op |-> "create", code |-> "EROFS"]
            /\ UNCHANGED <<handles, temp_file, created, cache, cachedAfter>>
       ELSE /\ IF ok
               THEN /\ handles' = [write_mode |-> TRUE, size |-> 0, dirty |-> FALSE]
                    /\ temp_file' = <<>>
                    /\ created' = TRUE
                    /\ cache' = invalidate_negative(cache, FileNode.parent_id, FileNode.name)
                    /\ cachedAfter' = cachedAfter \ {FileNode.parent_id}
               ELSE UNCHANGED <<handles, temp_file, created, cache, cachedAfter>>
            /\ UNCHANGED ureply
    /\ UNCHANGED <<durability_mode, running, workerVars, diskVars, serverVars, inl,
                   rreply, writeGhosts, flushed, ofresh, done, reput, accepted,
                   crashGhosts, callGhosts>>
    /\ UNCHANGED notUpDir

\* the replies of write and setattr: [code, n], n the byte count of reply.written
\* or the size of the attributes replied
HandlerReplies ==
    [code : {"ok", "EBADF", "EIO"}, n : 0..MaxSize]

\* RosetFs::write(fh, offset, data) replying r: EBADF for an unknown handle, a
\* handle that is not in write mode or one without a temp file; else seek, write_all,
\* dirty = true, size = max(size, end_pos), reply.written(data.len()).  The n-th
\* change of a behaviour writes the byte n.
write_handler(offset, len, r) ==
    /\ Dispatch
    /\ IF handles = NoHandle \/ ~handles.write_mode \/ temp_file = NoFile
       THEN /\ r = [code |-> "EBADF", n |-> 0]
            /\ UNCHANGED <<handles, temp_file, writeGhosts, flushed>>
       ELSE /\ nwrites < MaxWrites
            /\ offset + len <= MaxSize
            /\ LET data == [i \in 1..len |-> nwrites + 1]
                   end_pos == offset + len
               IN  /\ temp_file' = WriteAt(temp_file, offset, data)
                   /\ handles' = [handles EXCEPT !.dirty = TRUE,
                                                 !.size = IF end_pos > @ THEN end_pos ELSE @]
                   /\ written' = [p \in 0..(MaxSize - 1) |->
                                     IF p >= offset /\ p < end_pos THEN nwrites + 1
                                     ELSE written[p]]
            /\ nwrites' = nwrites + 1
            /\ flushed' = FALSE
            /\ UNCHANGED rsize
            /\ r = [code |-> "ok", n |-> len]
    /\ UNCHANGED <<durability_mode, running, workerVars, diskVars, serverVars, inl,
                   rreply, created, ofresh, done, reput, accepted, crashGhosts,
                   ureply, callGhosts>>

Write(offset, len) ==
    /\ \E r \in HandlerReplies : write_handler(offset, len, r)
    /\ UNCHANGED notUp

\* RosetFs::setattr(size = Some(new_size), fh) replying r: a write-mode handle with a
\* temp file is truncated (set_len, size, dirty); any other handle is left alone.
\* Either way the reply is the node's attributes (cached, or fetched with get_node)
\* with attr.size = new_size.
setattr_handler(new_size, api, r) ==
    /\ Dispatch
    /\ IF handles = NoHandle \/ ~handles.write_mode \/ temp_file = NoFile
       THEN UNCHANGED <<handles, temp_file, writeGhosts, flushed>>
       ELSE /\ nwrites < MaxWrites
            /\ temp_file' = set_len(temp_file, new_size)
            /\ handles' = [handles EXCEPT !.dirty = TRUE, !.size = new_size]
            /\ written' = [p \in 0..(MaxSize - 1) |->
                              IF p >= new_size THEN 0 ELSE written[p]]
            /\ nwrites' = nwrites + 1
            /\ flushed' = FALSE
            /\ UNCHANGED rsize
    /\ r = IF api = "error" THEN [code |-> "EIO", n |-> 0]
           ELSE [code |-> "ok", n |-> new_size]
    /\ UNCHANGED <<durability_mode, running, workerVars, diskVars, serverVars, inl,
                   rreply, created, ofresh, done, reput, accepted, crashGhosts,
                   ureply, callGhosts>>

Setattr(new_size) ==
    /\ \E api \in Api, r \in HandlerReplies : setattr_handler(new_size, api, r)
    /\ UNCHANGED notUp

FsyncMut ==
    /\ Dispatch /\ handles # NoHandle
    /\ IF fsync_uploads(handles) /\ durability_mode = "SyncOnFsync"
       THEN /\ inl' = [who |-> "fsync", total_size |-> handles.size,
                       pending |-> PartLoop(handles.size, 1, 0, {}),
                       parts_vec |-> <<>>]
            /\ ureply' = [op |-> "fsync", code |-> "pending"]
       ELSE /\ ureply' = [op |-> "fsync", code |-> "ok"]
            /\ UNCHANGED inl
    /\ UNCHANGED <<durability_mode, running, handles, temp_file, workerVars, diskVars,
                   serverVars, rreply, created, writeGhosts, flushed, ofresh, done,
                   reput, accepted, crashGhosts, callGhosts>>
    /\ UNCHANGED notUp

\* RosetFs::fsync up to the start of the blocking upload
Fsync ==
    /\ Dispatch /\ handles # NoHandle
    /\ IF fsync_uploads(handles)
       THEN /\ inl' = [who |-> "fsync", total_size |-> handles.size,
                       pending |-> PartLoop(handles.size, 1, 0, {}),
                       parts_vec |-> <<>>]
            /\ ureply' = [op |-> "fsync", code |-> "pending"]
       ELSE /\ ureply' = [op |-> "fsync", code |-> "ok"]
            /\ UNCHANGED inl
    /\ UNCHANGED <<durability_mode, running, handles, temp_file, workerVars, diskVars,
                   serverVars, rreply, created, writeGhosts, flushed, ofresh, done,
                   reput, accepted, crashGhosts,
                   callGhosts>>
    /\ UNCHANGED notUp

\* RosetFs::release, with StagingManager::stage_file when a staging manager
\* exists, up to the start of the blocking upload otherwise
Release ==
    /\ Dispatch /\ handles # NoHandle
    /\ handles' = NoHandle
    /\ rsize' = IF handles.write_mode THEN handles.size ELSE rsize
    /\ IF handles.write_mode /\ handles.dirty
       THEN /\ ureply' = [op |-> "release", code |-> "pending"]
            /\ IF needs_staging(durability_mode)
               THEN /\ data_file' = [loc |-> "staging", bytes |-> temp_file]
                    /\ temp_file' = NoFile
                    /\ job_file' = [loc |-> "staging", total_size |-> handles.size,
                                    completed_parts |-> <<>>, partial |-> TRUE]
                    /\ inl' = [who |-> "stage", total_size |-> handles.size,
                               pending |-> <<>>, parts_vec |-> <<>>]
               ELSE /\ inl' = [who |-> "release", total_size |-> handles.size,
                               pending |-> PartLoop(handles.size, 1, 0, {}),
                               parts_vec |-> <<>>]
                    /\ UNCHANGED <<temp_file, data_file, job_file>>
       ELSE /\ temp_file' = NoFile
            /\ ureply' = [op |-> "release", code |-> "ok"]
            /\ UNCHANGED <<inl, data_file, job_file>>
    /\ UNCHANGED <<durability_mode, running, queue, accepted, wpc, job, attempts,
                   pending_parts, put_done,
                   serverVars, rreply, created, written, nwrites, flushed, ofresh, done,
                   reput, crashGhosts,
                   callGhosts>>
    /\ UNCHANGED notUp

\* the rest of stage_file and of release: fs::write of the sidecar returns,
\* the job is sent to the worker, the node is invalidated, release replies
StageSend ==
    /\ running /\ inl.who = "stage"
    /\ job_file' = [job_file EXCEPT !.partial = FALSE]
    /\ queue' = Append(queue, [total_size |-> inl.total_size, completed_parts |-> <<>>])
    /\ accepted' = TRUE
    /\ inl' = NoInline
    /\ cache' = invalidate_node(cache, FileNode.id)
    /\ ureply' = [op |-> "release", code |-> "ok"]
    /\ UNCHANGED <<durability_mode, running, handles, temp_file, data_file, wpc, job,
                   attempts, pending_parts, put_done, serverVars, rreply, created,
                   writeGhosts, flushed, ofresh, done, reput, crashGhosts, callGhosts>>
    /\ UNCHANGED notUpCache

\* the inline upload returned Err: fsync replies EIO and leaves the handle
\* dirty, release removes the temp file and replies ok
InlineErr ==
    /\ inl' = NoInline
    /\ temp_file' = IF inl.who = "fsync" THEN temp_file ELSE NoFile
    /\ ureply' = [op |-> inl.who, code |-> IF inl.who = "fsync" THEN "EIO" ELSE "ok"]
    /\ UNCHANGED <<handles, object, done, flushed, cache>>

\* one part future of the inline upload: part URL, PUT of the chunk, ETag;
\* try_collect pushes the Ok result and returns at the first Err
InlinePut(p, ok) ==
    /\ running /\ inl.who \in {"fsync", "release"}
    /\ p \in Active(inl.pending)
    /\ IF ok
       THEN LET chunk == ReadChunk(temp_file, p.off, p.size)
            IN  /\ parts_store' = [parts_store EXCEPT ![p.part_number] = chunk]
                /\ inl' = [inl EXCEPT !.pending = RemovePart(@, p.part_number),
                                      !.parts_vec = Append(@, Part(p.part_number, chunk))]
                /\ UNCHANGED <<handles, temp_file, object, done, flushed, ureply, cache>>
       ELSE /\ InlineErr
            /\ UNCHANGED parts_store
    /\ UNCHANGED <<durability_mode, running, workerVars, diskVars, rreply, created,
                   writeGhosts, ofresh, reput, accepted, crashGhosts,
                   callGhosts>>
    /\ UNCHANGED notUpCache

\* the end of the inline upload: sort, complete_multipart_upload, and the
\* handler's epilogue
InlineComplete(ok) ==
    /\ running /\ inl.who \in {"fsync", "release"}
    /\ inl.pending = <<>>
    /\ LET parts_vec == sort_by_key(inl.parts_vec)
       IN  /\ unsorted' = (unsorted \/ ~Ascending(parts_vec))
           /\ IF ok /\ CompleteOk(parts_store, parts_vec)
              THEN /\ object' = Assemble(parts_store, parts_vec)
                   /\ done' = DoneOf(inl.who, inl.total_size, parts_vec)
                   /\ flushed' = TRUE
                   /\ inl' = NoInline
                   /\ cache' = invalidate_node(cache, FileNode.id)
                   /\ ureply' = [op |-> inl.who, code |-> "ok"]
                   /\ IF inl.who = "fsync"
                      THEN /\ handles' = [handles EXCEPT !.dirty = FALSE]
                           /\ UNCHANGED temp_file
                      ELSE /\ temp_file' = NoFile
                           /\ UNCHANGED handles
              ELSE InlineErr
    /\ UNCHANGED <<durability_mode, running, workerVars, diskVars, parts_store, rreply,
                   created, writeGhosts, ofresh, reput, accepted, crashGhosts,
                   sleeps>>
    /\ UNCHANGED notUpCache

\* RosetFs::open: get_download_url answers for a committed object
Open(ok) ==
    /\ Dispatch /\ created /\ handles = NoHandle
    /\ IF ok /\ object # NoFile
       THEN /\ handles' = [write_mode |-> FALSE, size |-> Len(object), dirty |-> FALSE]
            /\ ofresh' = (flushed /\ rsize # -1)
       ELSE UNCHANGED <<handles, ofresh>>
    /\ UNCHANGED <<durability_mode, running, temp_file, workerVars, diskVars, serverVars,
                   inl, rreply, created, writeGhosts, flushed, done, reput, accepted,
                   crashGhosts,
                   ureply, callGhosts>>
    /\ UNCHANGED notUp

\* RosetFs::read; rreply keeps the last reply that carried data, an error
\* reply (no download URL on a write handle, a failed download) leaves it
Read(offset, size, ok) ==
    /\ Dispatch /\ handles # NoHandle
    /\ LET file_size == handles.size
           actual_size == Min(size, file_size - offset)
       IN  IF offset >= file_size
           THEN rreply' = [offset |-> offset, size |-> size, data |-> <<>>,
                           fresh |-> ofresh /\ ~handles.write_mode]
           ELSE IF handles.write_mode \/ ~ok
           THEN UNCHANGED rreply
           ELSE rreply' = [offset |-> offset, size |-> size,
                           data |-> download_range(object, offset, actual_size),
                           fresh |-> ofresh]
    /\ UNCHANGED <<durability_mode, running, handles, temp_file, workerVars, diskVars,
                   serverVars, inl, created, writeGhosts, flushed, ofresh, done, reput,
                   accepted, crashGhosts,
                   ureply, callGhosts>>
    /\ UNCHANGED notUp

\* RosetFs::getattr of the file: the cached node, or get_node and put_node
Getattr(ok) ==
    /\ Dispatch /\ created
    /\ IF get_node(cache, FileNode.id) = NoNode /\ ok
       THEN cache' = put_node(get_node_cache(cache, FileNode.id), FileNode)
       ELSE cache' = get_node_cache(cache, FileNode.id)
    /\ UNCHANGED upVars
    /\ UNCHANGED notUpCache

handlerVars == <<handles, temp_file, inl, rreply, created, writeGhosts, ofresh, ureply>>

\* worker loop: rx.recv()
WorkerRecv ==
    /\ running /\ wpc = "recv" /\ queue # <<>>
    /\ job' = Head(queue)
    /\ queue' = Tail(queue)
    /\ attempts' = 0
    /\ sleeps' = <<>>
    /\ wpc' = "start"
    /\ UNCHANGED <<durability_mode, running, pending_parts, put_done, diskVars,
                   serverVars, handlerVars, flushed, done, reput, accepted, crashGhosts,
                   unsorted>>
    /\ UNCHANGED notUp

\* a pass returned Err: attempts += 1, then the sleep
PassErr ==
    /\ attempts' = attempts + 1
    /\ sleeps' = Append(sleeps, backoff_secs(attempts + 1))
    /\ wpc' = "sleep"
    /\ pending_parts' = <<>>
    /\ put_done' = {}

\* process_upload up to the creation of the part stream
StreamStart ==
    /\ running /\ wpc = "start"
    /\ data_file.loc = "staging"
    /\ LET pending == PartLoop(job.total_size, 1, 0, existing_parts(job))
       IN  /\ ~(pending = <<>> /\ job.completed_parts # <<>>)
           /\ pending_parts' = pending
    /\ wpc' = "stream"
    /\ UNCHANGED <<durability_mode, running, queue, job, attempts, put_done, diskVars,
                   serverVars, handlerVars, flushed, done, reput, accepted, crashGhosts,
                   callGhosts>>
    /\ UNCHANGED notUp

\* process_upload when nothing is pending: complete with completed_parts as
\* they are
ResumeComplete(ok) ==
    /\ running /\ wpc = "start"
    /\ data_file.loc = "staging"
    /\ PartLoop(job.total_size, 1, 0, existing_parts(job)) = <<>>
    /\ job.completed_parts # <<>>
    /\ unsorted' = (unsorted \/ ~Ascending(job.completed_parts))
    /\ IF ok /\ CompleteOk(parts_store, job.completed_parts)
       THEN /\ object' = Assemble(parts_store, job.completed_parts)
            /\ done' = DoneOf("worker", job.total_size, job.completed_parts)
            /\ flushed' = TRUE
            /\ wpc' = "rm_data"
            /\ UNCHANGED <<attempts, pending_parts, put_done, sleeps>>
       ELSE /\ PassErr
            /\ UNCHANGED <<object, done, flushed>>
    /\ UNCHANGED <<durability_mode, running, queue, job, diskVars, parts_store,
                   handlerVars, reput, accepted, crashGhosts>>
    /\ UNCHANGED notUp

\* one part future of the staged upload: part URL, PUT of the chunk; the
\* result waits in the stream until the collecting loop takes it
PartPut(p, ok) ==
    /\ running /\ wpc = "stream"
    /\ p \in Active(pending_parts) /\ p.part_number \notin put_done
    /\ IF ok
       THEN /\ parts_store' = [parts_store EXCEPT
                                   ![p.part_number] = ReadChunk(data_file.bytes, p.off, p.size)]
            /\ put_done' = put_done \cup {p.part_number}
            /\ reput' = (reput \/ p.part_number \in RecordedNumbers(job_file.completed_parts))
            /\ UNCHANGED <<wpc, attempts, pending_parts, sleeps>>
       ELSE /\ PassErr
            /\ UNCHANGED <<parts_store, reput>>
    /\ UNCHANGED <<durability_mode, running, queue, job, diskVars, object, handlerVars,
                   flushed, done, accepted, crashGhosts,
                   unsorted>>
    /\ UNCHANGED notUp

\* the collecting loop takes one result: push, then rewrite the sidecar
\* through a temporary file and a rename
PartRecord(n) ==
    /\ running /\ wpc = "stream"
    /\ n \in put_done
    /\ LET part == Part(n, parts_store[n])
           completed == Append(job.completed_parts, part)
       IN  /\ job' = [job EXCEPT !.completed_parts = completed]
           /\ job_file' = [job_file EXCEPT !.completed_parts = completed]
    /\ pending_parts' = RemovePart(pending_parts, n)
    /\ put_done' = put_done \ {n}
    /\ UNCHANGED <<durability_mode, running, queue, wpc, attempts, data_file, serverVars,
                   handlerVars, flushed, done, reput, accepted, crashGhosts,
                   callGhosts>>
    /\ UNCHANGED notUp

\* the stream is exhausted: sort, complete_multipart_upload
StreamComplete(ok) ==
    /\ running /\ wpc = "stream"
    /\ pending_parts = <<>>
    /\ LET sorted == sort_by_key(job.completed_parts)
       IN  /\ job' = [job EXCEPT !.completed_parts = sorted]
           /\ unsorted' = (unsorted \/ ~Ascending(sorted))
           /\ IF ok /\ CompleteOk(parts_store, sorted)
              THEN /\ object' = Assemble(parts_store, sorted)
                   /\ done' = DoneOf("worker", job.total_size, sorted)
                   /\ flushed' = TRUE
                   /\ wpc' = "rm_data"
                   /\ UNCHANGED <<attempts, pending_parts, put_done, sleeps>>
              ELSE /\ PassErr
                   /\ UNCHANGED <<object, done, flushed>>
    /\ UNCHANGED <<durability_mode, running, queue, diskVars, parts_store, handlerVars,
                   reput, accepted, crashGhosts>>
    /\ UNCHANGED notUp

\* the sleep after a failed pass ends: next pass, or the dead-letter move
WorkerWake ==
    /\ running /\ wpc = "sleep"
    /\ wpc' = IF attempts < max_attempts THEN "start" ELSE "dlq_data"
    /\ UNCHANGED <<durability_mode, running, queue, job, attempts, pending_parts,
                   put_done, diskVars, serverVars, handlerVars, flushed, done, reput,
                   accepted, crashGhosts,
                   callGhosts>>
    /\ UNCHANGED notUp

\* success: fs::remove_file(&job.file_path)
RemoveData ==
    /\ running /\ wpc = "rm_data"
    /\ data_file' = NoDataFile
    /\ wpc' = "rm_job"
    /\ UNCHANGED <<durability_mode, running, queue, job, attempts, pending_parts,
                   put_done, job_file, serverVars, handlerVars, flushed, done, reput,
                   accepted, crashGhosts,
                   callGhosts>>
    /\ UNCHANGED notUp

\* success: fs::remove_file(&job_file_path)
RemoveJob ==
    /\ running /\ wpc = "rm_job"
    /\ job_file' = NoJobFile
    /\ job' = NoJob
    /\ wpc' = "recv"
    /\ UNCHANGED <<durability_mode, running, queue, attempts, pending_parts, put_done,
                   data_file, serverVars, handlerVars, flushed, done, reput, accepted,
                   crashGhosts,
                   callGhosts>>
    /\ UNCHANGED notUp

\* dead letter: fs::rename(&job.file_path, &failed_dest)
DlqData ==
    /\ running /\ wpc = "dlq_data"
    /\ data_file' = [data_file EXCEPT !.loc = "failed"]
    /\ wpc' = "dlq_job"
    /\ UNCHANGED <<durability_mode, running, queue, job, attempts, pending_parts,
                   put_done, job_file, serverVars, handlerVars, flushed, done, reput,
                   accepted, crashGhosts,
                   callGhosts>>
    /\ UNCHANGED notUp

\* dead letter: fs::rename(&job_file_path, &job_failed_dest)
DlqJob ==
    /\ running /\ wpc = "dlq_job"
    /\ job_file' = [job_file EXCEPT !.loc = "failed"]
    /\ job' = NoJob
    /\ wpc' = "recv"
    /\ UNCHANGED <<durability_mode, running, queue, attempts, pending_parts, put_done,
                   data_file, serverVars, handlerVars, flushed, done, reput, accepted,
                   crashGhosts,
                   callGhosts>>
    /\ UNCHANGED notUp

\* the process exits: everything in memory is gone, the staging directory and
\* the upload service keep what they hold
Crash ==
    /\ running /\ crashes < MaxCrashes
    /\ running' = FALSE
    /\ crashes' = crashes + 1
    /\ crash_at' = IF wpc # "stream" THEN "other"
                    ELSE IF job_file.completed_parts = <<>> THEN "stream0"
                    ELSE IF pending_parts = <<>> THEN "streamed"
                    ELSE "stream"
    /\ handles' = NoHandle
    /\ temp_file' = NoFile
    /\ inl' = NoInline
    /\ queue' = <<>>
    /\ job' = NoJob
    /\ attempts' = 0
    /\ pending_parts' = <<>>
    /\ put_done' = {}
    /\ wpc' = "down"
    /\ sleeps' = <<>>
    /\ ureply' = NoReply
    /\ cache' = CacheNew
    /\ UNCHANGED <<durability_mode, diskVars, serverVars, rreply, created, writeGhosts,
                   flushed, ofresh, done, reput, accepted, unsorted>>
    /\ UNCHANGED notUpCache

\* the process starts again: RosetFs::new, and with a staging manager the
\* scan of the staging root for sidecars
Restart ==
    /\ ~running
    /\ running' = TRUE
    /\ wpc' = "recv"
    /\ IF needs_staging(durability_mode) /\ job_file.loc = "staging"
       THEN IF job_file.partial
            THEN /\ job_file' = [job_file EXCEPT !.loc = "failed"]
                 /\ UNCHANGED queue
            ELSE IF data_file.loc = "staging"
            THEN /\ queue' = <<[total_size |-> job_file.total_size,
                                completed_parts |-> job_file.completed_parts]>>
                 /\ UNCHANGED job_file
            ELSE /\ job_file' = NoJobFile
                 /\ UNCHANGED queue
       ELSE UNCHANGED <<queue, job_file>>
    /\ UNCHANGED <<durability_mode, job, attempts, pending_parts, put_done, data_file,
                   serverVars, handlerVars, flushed, done, reput, accepted, crashGhosts,
                   callGhosts>>
    /\ UNCHANGED notUp

WriteCounted(offset, len) ==
    /\ \E r \in HandlerReplies :
          /\ write_handler(offset, len, r)
          /\ hr' = [op |-> "write", a |-> offset, b |-> len, code |-> r.code, n |-> r.n,
                    flip |-> ~hr.flip]
    /\ UNCHANGED <<inodeVars, dirVars, clientVars, supVars, urlVars, probeVars, hydVars, lk>>

SetattrCounted(new_size, api) ==
    /\ \E r \in HandlerReplies :
          /\ setattr_handler(new_size, api, r)
          /\ hr' = [op |-> "setattr", a |-> 0, b |-> new_size, code |-> r.code, n |-> r.n,
                    flip |-> ~hr.flip]
    /\ UNCHANGED <<inodeVars, dirVars, clientVars, supVars, urlVars, probeVars, hydVars, lk>>

SetSizes == {0, 2, MaxSize - 1}

\* one file through create, write, truncate, release with its inline upload, and open
WriteNext ==
    \/ \E ok \in BOOLEAN : Create(ok)
    \/ \E offset \in WriteOffsets, len \in WriteLens : WriteCounted(offset, len)
    \/ \E new_size \in SetSizes, api \in Api : SetattrCounted(new_size, api)
    \/ Release
    \/ \E p \in Active(inl.pending), ok \in BOOLEAN : InlinePut(p, ok)
    \/ \E ok \in BOOLEAN : InlineComplete(ok)
    \/ \E ok \in BOOLEAN : Open(ok)

FileNext ==
    \/ \E ok \in BOOLEAN : Create(ok)
    \/ \E offset \in WriteOffsets, len \in WriteLens : Write(offset, len)
    \/ \E new_size \in TruncSizes : Setattr(new_size)
    \/ Fsync
    \/ Release
    \/ StageSend
    \/ \E p \in Active(inl.pending), ok \in BOOLEAN : InlinePut(p, ok)
    \/ \E ok \in BOOLEAN : InlineComplete(ok)
    \/ \E ok \in BOOLEAN : Open(ok)
    \/ \E offset \in ReadOffsets, size \in {1, rsize} \ {-1, 0}, ok \in BOOLEAN :
          Read(offset, size, ok)
    \/ WorkerRecv
    \/ StreamStart
    \/ \E ok \in BOOLEAN : ResumeComplete(ok)
    \/ \E p \in Active(pending_parts), ok \in BOOLEAN : PartPut(p, ok)
    \/ \E n \in put_done : PartRecord(n)
    \/ \E ok \in BOOLEAN : StreamComplete(ok)
    \/ WorkerWake
    \/ RemoveData
    \/ RemoveJob
    \/ DlqData
    \/ DlqJob

StagingNext ==
    \/ Fsync
    \/ Release
    \/ StageSend
    \/ \E p \in Active(inl.pending), ok \in BOOLEAN : InlinePut(p, ok)
    \/ \E ok \in BOOLEAN : InlineComplete(ok)
    \/ \E ok \in BOOLEAN : Open(ok)
    \/ \E ok \in BOOLEAN : Getattr(ok)
    \/ WorkerRecv
    \/ StreamStart
    \/ \E ok \in BOOLEAN : ResumeComplete(ok)
    \/ \E p \in Active(pending_parts), ok \in BOOLEAN : PartPut(p, ok)
    \/ \E n \in put_done : PartRecord(n)
    \/ \E ok \in BOOLEAN : StreamComplete(ok)
    \/ WorkerWake
    \/ RemoveData
    \/ RemoveJob
    \/ DlqData
    \/ DlqJob
    \/ Crash
    \/ Restart

(***************************************************************************)
(* Specifications                                                          *)
(***************************************************************************)
(***************************************************************************)
(* Signed download URLs: open stores the URL and its expiry, read refreshes *)
(***************************************************************************)
MaxUrlClock == 6
URL_REFRESH_BUFFER == 1
EXPIRES_IN == 3

\* outcomes of get_download_url and of download_range, as the ApiError returned
UrlOutcomes == {"Ok", "Forbidden", "ServerError"}
RangeOutcomes == {"Ok", "ServerError 403", "ServerError"}

\* Err(ApiError::ServerError(msg)) if msg.contains("403")
is_403(err) == err = "ServerError 403"

api_error_to_errno(err) ==
    IF err = "NotFound" THEN "ENOENT"
    ELSE IF err \in {"Unauthorized", "Forbidden"} THEN "EACCES"
    ELSE IF err = "LeaseConflict" THEN "EBUSY"
    ELSE IF err = "RateLimited" THEN "EAGAIN"
    ELSE "EIO"

NoRq == [refreshes |-> 0, fetches |-> 0, url |-> -1, code |-> "none", flip |-> FALSE]

UrlIdle ==
    /\ uclock = 0
    /\ uh = [download_url |-> 0, expires_at |-> EXPIRES_IN]
    /\ rq = NoRq

\* the signing service refuses a URL whose expiry has passed
Expired(url) == uclock > url + EXPIRES_IN

\* refresh_threshold > exp, refresh_threshold = SystemTime::now() + url_refresh_buffer
needs_refreshMut(h) == uclock > h.expires_at
needs_refresh(h) == uclock + URL_REFRESH_BUFFER > h.expires_at

notUrl == <<inodeVars, dirVars, clientVars, supVars, upVars, probeVars, hydVars, obsVars>>

UrlTick ==
    /\ uclock < MaxUrlClock
    /\ uclock' = uclock + 1
    /\ UNCHANGED <<uh, rq>>
    /\ UNCHANGED notUrl

\* RosetFs::read on the open handle, offset inside the file (past_eof = FALSE) or not.
\* pre, re: outcomes of the proactive and the reactive get_download_url;
\* f1, f2: outcomes of the first download_range and of its retry
UrlRead(past_eof, pre, f1, re, f2) ==
    /\ IF past_eof
       THEN /\ rq' = [refreshes |-> 0, fetches |-> 0, url |-> -1, code |-> "empty",
                       flip |-> ~rq.flip]
            /\ UNCHANGED uh
       ELSE LET refreshed == needs_refresh(uh) /\ pre = "Ok"
                r1 == IF needs_refresh(uh) THEN 1 ELSE 0
                url == IF refreshed THEN uclock ELSE uh.download_url
            IN /\ Expired(url) => f1 # "Ok"
               /\ uh' = IF refreshed
                        THEN [download_url |-> uclock, expires_at |-> uclock + EXPIRES_IN]
                        ELSE uh
               /\ rq' = IF f1 = "Ok"
                        THEN [refreshes |-> r1, fetches |-> 1, url |-> url, code |-> "data",
                              flip |-> ~rq.flip]
                        ELSE IF ~is_403(f1)
                        THEN [refreshes |-> r1, fetches |-> 1, url |-> url,
                              code |-> api_error_to_errno(f1), flip |-> ~rq.flip]
                        ELSE IF re # "Ok"
                        THEN [refreshes |-> r1 + 1, fetches |-> 1, url |-> url,
                              code |-> api_error_to_errno(re), flip |-> ~rq.flip]
                        ELSE [refreshes |-> r1 + 1, fetches |-> 2, url |-> url,
                              code |-> IF f2 = "Ok" THEN "data" ELSE api_error_to_errno(f2),
                              flip |-> ~rq.flip]
    /\ UNCHANGED uclock
    /\ UNCHANGED notUrl

UrlNext ==
    \/ UrlTick
    \/ \E past_eof \in BOOLEAN, pre \in UrlOutcomes, f1 \in RangeOutcomes,
          re \in UrlOutcomes, f2 \in RangeOutcomes : UrlRead(past_eof, pre, f1, re, f2)

SpecInodeInit == InodeInit /\ DirIdle /\ ClientIdle /\ SupIdle /\ UpIdle /\ UrlIdle /\ ProbeIdle /\ HydIdle
SpecInode == SpecInodeInit /\ [][InodeNext]_vars

\* the inode map driven by entry replies, directory listings and forgets
ForgetNext ==
    \/ \E t \in Threads, n \in NodeIds : GocCall(t, n)
    \/ \E t \in Threads, n \in NodeIds : ReaddirCall(t, n)
    \/ \E t \in Threads : GocReadN2I(t)
    \/ \E t \in Threads : GocCheck(t)
    \/ \E t \in Threads : GocFastReturn(t)
    \/ \E t \in Threads : GocAlloc(t)
    \/ \E t \in Threads : GocWriteN2I(t)
    \/ \E t \in Threads : GocWriteI2N(t)
    \/ \E t \in Threads : GocInsert(t)
    \/ \E t \in Threads, i \in Inos, nl \in 1..MaxRef : ForgetCall(t, i, nl)
    \/ \E t \in Threads : ForgetWriteN2I(t)
    \/ \E t \in Threads : ForgetWriteI2N(t)
    \/ \E t \in Threads : ForgetRemove(t)

\* every InodeMap call, interleaved lock by lock
LockNext ==
    \/ \E t \in Threads, n \in NodeIds : GocCall(t, n)
    \/ \E t \in Threads : GocReadN2I(t)
    \/ \E t \in Threads : GocCheck(t)
    \/ \E t \in Threads : GocFastReturn(t)
    \/ \E t \in Threads : GocAlloc(t)
    \/ \E t \in Threads : GocWriteN2I(t)
    \/ \E t \in Threads : GocWriteI2N(t)
    \/ \E t \in Threads : GocInsert(t)
    \/ \E t \in Threads, i \in Inos, nl \in 1..MaxRef : ForgetCall(t, i, nl)
    \/ \E t \in Threads : ForgetWriteN2I(t)
    \/ \E t \in Threads : ForgetWriteI2N(t)
    \/ \E t \in Threads : ForgetRemove(t)
    \/ \E t \in Threads : GetNodeIdCall(t)
    \/ \E t \in Threads : GetNodeIdReturn(t)
    \/ \E t \in Threads : GetInoCall(t)
    \/ \E t \in Threads : GetInoReturn(t)
    \/ \E t \in Threads : SetRootCall(t)
    \/ \E t \in Threads : SetRootWriteN2I(t)
    \/ \E t \in Threads : SetRootWriteI2N(t)
    \/ \E t \in Threads : SetRootInsert(t)

SpecLocksInit == InodeInit /\ DirIdle /\ ClientIdle /\ SupIdle /\ UpIdle /\ UrlIdle /\ ProbeIdle /\ HydIdle
SpecLocks == SpecLocksInit /\ [][LockNext]_vars

SpecForgetInit == InodeInit /\ DirIdle /\ ClientIdle /\ SupIdle /\ UpIdle /\ UrlIdle /\ ProbeIdle /\ HydIdle
SpecForget == SpecForgetInit /\ [][ForgetNext]_vars

InodeIdle ==
    /\ next_ino = FIRST_INO
    /\ node_to_ino = [n \in NodeIds |-> 0]
    /\ ino_to_node = [i \in Inos |-> "none"]
    /\ refcounts = [i \in Inos |-> 0]
    /\ ilocks = [l \in {"n2i", "i2n", "refs"} |-> NoLock]
    /\ ipc = [t \in Threads |-> "idle"]
    /\ iarg = [t \in Threads |-> IdleArg]
    /\ kref = [i \in Inos |-> 0]
    /\ stable = [n \in NodeIds |-> 0]
    /\ gocBad = FALSE

SpecDirInit == DirInit /\ InodeIdle /\ ClientIdle /\ SupIdle /\ UpIdle /\ UrlIdle /\ ProbeIdle /\ HydIdle
SpecDir == SpecDirInit /\ [][DirNext]_vars

SpecLookupInit == DirInit /\ InodeIdle /\ ClientIdle /\ SupIdle /\ UpIdle /\ UrlIdle /\ ProbeIdle /\ HydIdle
SpecLookup == SpecLookupInit /\ [][LookupNext]_vars

\* the handlers that change the tree, on a mount that is read-only or not
MutateNext ==
    \/ Tick
    \/ \E p \in Ids, n \in Names, api \in Api : Mkdir(p, n, api)
    \/ \E p \in Ids, n \in Names, api \in Api, api2 \in Api : Rmdir(p, n, api, api2)
    \/ \E p \in Ids, n \in Names, api \in Api, api2 \in Api : Unlink(p, n, api, api2)
    \/ \E p \in Ids, n \in Names, np \in Ids, nn \in Names, api \in Api, api2 \in Api :
          Rename(p, n, np, nn, api, api2)
    \/ \E i \in Ids, api \in Api : Setxattr(i, api)
    \/ \E i \in Ids, api \in Api : Removexattr(i, api)
    \/ \E ok \in BOOLEAN : Create(ok)

SpecMutateInit == DirInit /\ InodeIdle /\ ClientIdle /\ SupIdle /\ UpIdle /\ UrlIdle /\ ProbeIdle /\ HydIdle
SpecMutate == SpecMutateInit /\ [][MutateNext]_vars

SpecCacheInit == DirIdle /\ InodeIdle /\ ClientIdle /\ SupIdle /\ UpIdle /\ UrlIdle /\ ProbeIdle /\ HydIdle
SpecCache == SpecCacheInit /\ [][CacheNext]_vars

SpecClientInit == ClientInit /\ InodeIdle /\ DirIdle /\ SupIdle /\ UpIdle /\ UrlIdle /\ ProbeIdle /\ HydIdle
SpecClient == SpecClientInit /\ [][ClientNext]_vars

SpecSupInit == SupInit /\ InodeIdle /\ DirIdle /\ ClientIdle /\ UpIdle /\ UrlIdle /\ ProbeIdle /\ HydIdle
SpecSup == SpecSupInit /\ [][SupNext]_vars

SpecFileInit == FileInit /\ InodeIdle /\ DirIdle /\ ClientIdle /\ SupIdle /\ UrlIdle /\ ProbeIdle /\ HydIdle
SpecWriteInit == UpIdle /\ InodeIdle /\ DirIdle /\ ClientIdle /\ SupIdle /\ UrlIdle /\ ProbeIdle /\ HydIdle
SpecWrite == SpecWriteInit /\ [][WriteNext]_vars
SpecFile == SpecFileInit /\ [][FileNext]_vars

SpecStagingInit == StagingInit /\ InodeIdle /\ DirIdle /\ ClientIdle /\ SupIdle /\ UrlIdle /\ ProbeIdle /\ HydIdle
SpecProbeInit == ProbeInit /\ InodeIdle /\ DirIdle /\ ClientIdle /\ SupIdle /\ UpIdle /\ UrlIdle /\ HydIdle
SpecProbe == SpecProbeInit /\ [][ProbeNext]_vars

\* the monitor task and the gRPC handlers are scheduled by the runtime: a step
\* of theirs that stays possible is eventually taken
FairProbe ==
    /\ SpecProbe
    /\ WF_vars(HcLock) /\ WF_vars(\E v \in ProbeVols : HcProbe(v))
    /\ WF_vars(HcJoin) /\ WF_vars(HcUnlock) /\ WF_vars(ApiRun)

SpecLoopInit == LoopInit /\ InodeIdle /\ DirIdle /\ ClientIdle /\ UpIdle /\ UrlIdle /\ ProbeIdle /\ HydIdle
SpecLoop == SpecLoopInit /\ [][LoopNext]_vars

\* time passes, the monitor loop's sleep ends and a recovery task's sleep ends
FairLoop ==
    /\ SpecLoop
    /\ WF_vars(LoopTick) /\ WF_vars(LoopMonitor)
    /\ WF_vars(\E task \in tasks, ok \in BOOLEAN : LoopRecovery(task, ok))

SpecHydInit == HydInit /\ InodeIdle /\ DirIdle /\ ClientIdle /\ SupIdle /\ UpIdle /\ UrlIdle /\ ProbeIdle
SpecHyd == SpecHydInit /\ [][HydNext]_vars

\* create, write and release of one file in a mount whose root is listed
CreateNext ==
    \/ Tick
    \/ \E api \in Api, mf \in Api : Readdir(ROOT_ID, api, mf)
    \/ \E ok \in BOOLEAN : Create(ok)
    \/ \E offset \in WriteOffsets, len \in WriteLens : Write(offset, len)
    \/ Release
    \/ StageSend
    \/ \E p \in Active(inl.pending), ok \in BOOLEAN : InlinePut(p, ok)
    \/ \E ok \in BOOLEAN : InlineComplete(ok)

SpecCreateInit == FileInit /\ DirInit /\ InodeIdle /\ ClientIdle /\ SupIdle /\ UrlIdle /\ ProbeIdle /\ HydIdle
SpecCreate == SpecCreateInit /\ [][CreateNext]_vars

SpecUrlInit == UrlIdle /\ InodeIdle /\ DirIdle /\ ClientIdle /\ SupIdle /\ UpIdle /\ ProbeIdle /\ HydIdle /\ HydIdle
SpecUrl == SpecUrlInit /\ [][UrlNext]_vars
SpecStaging == SpecStagingInit /\ [][StagingNext]_vars

(***************************************************************************)
(* Claims                                                                  *)
(***************************************************************************)
\* C5: inode stability. While the kernel holds a reference to the inode that
\* get_or_create handed out for a node id (its refcount has not been brought to
\* zero by forget), every get_or_create of that node id returns the same inode and
\* get_node_id of that inode returns the node id.
InodeStability ==
    /\ ~gocBad
    /\ \A n \in NodeIds : stable[n] # 0 =>
          /\ node_to_ino[n] = stable[n]
          /\ get_node_id(stable[n]) = n

\* a non-root node holds two references on its inode after a partial forget
InodeStabilityWitness ==
    \E n \in NodeIds \ {"root"} :
        /\ stable[n] # 0
        /\ kref[stable[n]] = 2
        /\ next_ino > FIRST_INO + 1
        /\ \A t \in Threads : ipc[t] = "idle"


NegativeFreshness ==
    [][\A p \in Ids, n \in Names :
          (\/ /\ cache'.children[p] # cache.children[p]
              /\ cache'.children[p].present
              /\ \E ch \in cache'.children[p].children : ch.name = n
           \/ /\ freply' = "created"
              /\ \E i \in Ids : srv[i] = Absent /\ srv'[i].parent = p /\ srv'[i].name = n)
          => ~(cache'.negative[<<p, n>>] # 0 /\ cache'.negative[<<p, n>>] > now')]_vars

\* the delay the retry policy prescribes before retry number i
RECURSIVE PolicyDelay(_, _)
PolicyDelay(initial, i) ==
    IF i = 1 THEN initial ELSE Min(2 * PolicyDelay(initial, i - 1), 10000)

\* C9: API retry policy. A JSON call retries only on 429, 5xx or a network error,
\* sleeps initial_backoff_ms before the first retry and twice the previous delay,
\* capped at 10 s, before each later one, makes at most max_retries attempts and
\* then fails; a 4xx other than 429 fails at once, after one attempt and no sleep
\* when it is the first response; a 429 followed by a 200 succeeds on the second
\* attempt after one sleep of initial_backoff_ms (a 200 whose body does not decode
\* is returned as an error without retry and is left out of that case).
RetryPolicy ==
    cop = "json" =>
        /\ attempt = Len(chist)
        /\ attempt <= ccfg.max_retries
        /\ \A i \in 1..(Len(chist) - 1) :
              chist[i] = 429 \/ (chist[i] >= 500 /\ chist[i] <= 599) \/ chist[i] = 0
        /\ Len(csleeps) = IF cpc = "send" THEN attempt ELSE Max(attempt - 1, 0)
        /\ \A i \in 1..Len(csleeps) : csleeps[i] = PolicyDelay(ccfg.initial_backoff_ms, i)
        /\ cpc = "sleep" => attempt < ccfg.max_retries
        /\ cpc = "done" =>
              LET last == chist[Len(chist)]
              IN /\ (cresult # "Ok" /\ (last = 429 \/ last >= 500 \/ last = 0))
                        => attempt = ccfg.max_retries
                 /\ (last >= 400 /\ last < 500 /\ last # 429) => cresult # "Ok"
                 /\ (chist[1] >= 400 /\ chist[1] < 500 /\ chist[1] # 429)
                        => attempt = 1 /\ csleeps = <<>>
                 /\ (chist = <<429, 200>> /\ cresult # "NetworkError")
                        => cresult = "Ok" /\ csleeps = <<ccfg.initial_backoff_ms>>

\* a JSON call that slept the capped delay, used every attempt and failed
RetryPolicyWitness ==
    /\ cop = "json"
    /\ cpc = "done"
    /\ cresult = "RateLimited"
    /\ attempt = ccfg.max_retries
    /\ Len(csleeps) >= 2
    /\ csleeps[Len(csleeps)] = 10000

\* C10: delete_node is idempotent: when the server answers 404 (the node does not
\* exist) delete_node returns success.
DeleteIdempotent ==
    (cop \in {"delete", "delete_legacy"} /\ cpc = "done" /\ chist[Len(chist)] = 404)
        => cresult = "Ok"

WrittenBytes == [i \in 1..rsize |-> written[i - 1]]

\* C1: round trip. After a file was written through a write handle and the
\* handle released, and once an upload of the written bytes has completed, a
\* read of the whole file (offset 0, at least its size) through a handle
\* opened afterwards returns exactly the bytes that were written.
RoundTrip ==
    (rreply.fresh /\ rreply.offset = 0 /\ rreply.size >= rsize)
        => rreply.data = WrittenBytes

\* A file of more than two parts with a hole, written by two writes, staged,
\* uploaded by the worker and read back whole.
RoundTripWitness ==
    /\ durability_mode = "Async"
    /\ done.who = "worker"
    /\ rreply.fresh /\ rreply.offset = 0 /\ rreply.size = rsize
    /\ rsize > 2 * PART_SIZE
    /\ nwrites = 2
    /\ \E i \in 1..rsize : rreply.data[i] = 0
    /\ rreply.data = WrittenBytes

\* The number of parts of a file of size S: ceil(S / PART_SIZE), 1 when S = 0.
NParts(S) ==
    IF S = 0 THEN 1
    ELSE CHOOSE n \in 1..S : (n - 1) * PART_SIZE < S /\ S <= n * PART_SIZE

\* The part of number n of a file: its bytes from (n - 1) * PART_SIZE.
ExpectedPart(bytes, n) ==
    [i \in 1..Min(PART_SIZE, Len(bytes) - (n - 1) * PART_SIZE) |->
        bytes[(n - 1) * PART_SIZE + i]]

\* C4: multipart completeness. The part list of every successful
\* complete_multipart_upload, from the staged worker (first pass, retry pass,
\* resumed after a restart) or from an inline uploader, has exactly one entry
\* for each part number 1..N, N = ceil(S / PART_SIZE), or the single part 1
\* when S = 0: N entries, no duplicates, no other numbers.
MultipartComplete ==
    done # NoDone =>
        /\ Len(done.parts) = NParts(done.size)
        /\ {done.parts[i] : i \in 1..Len(done.parts)} = 1..NParts(done.size)

\* A job of the largest size, resumed after a process exit and completed by
\* the worker.
MultipartCompleteWitness ==
    /\ done.who = "worker"
    /\ crashes > 0
    /\ done.size = MaxSize
    /\ Len(done.parts) = NParts(MaxSize)

\* An empty file completed by an inline uploader with the single part 1.
MultipartEmptyWitness ==
    /\ done.who \in {"fsync", "release"}
    /\ done.size = 0
    /\ done.parts = <<1>>

\* C2: crash recovery. When the process exits between two part PUTs of a
\* staged job, the data file and a sidecar are left in the staging root, the
\* sidecar names the size of the data file and only parts the upload service
\* holds with the bytes of the data file; after the restart the job is queued
\* or held by the worker with the recorded parts of the sidecar; no part
\* recorded in the sidecar is PUT again; and an upload the worker completes
\* after the restart has all N parts and commits the bytes of the file.
CrashRecovery ==
    /\ ~reput
    /\ (~running /\ crash_at \in {"stream0", "stream", "streamed"}) =>
          /\ data_file.loc = "staging"
          /\ job_file.loc = "staging"
          /\ job_file.total_size = Len(data_file.bytes)
          /\ \A i \in 1..Len(job_file.completed_parts) :
                LET part == job_file.completed_parts[i]
                IN  /\ part.part_number \in 1..NParts(job_file.total_size)
                    /\ parts_store[part.part_number]
                           = ExpectedPart(data_file.bytes, part.part_number)
                    /\ \A j \in 1..Len(job_file.completed_parts) :
                          job_file.completed_parts[j].part_number = part.part_number
                              => j = i
    /\ (running /\ crashes > 0 /\ data_file.loc = "staging" /\ job_file.loc = "staging") =>
          /\ queue # <<>> \/ wpc # "recv"
          /\ wpc \in {"start", "stream"} =>
                RecordedNumbers(job.completed_parts)
                    = RecordedNumbers(job_file.completed_parts)
    /\ (crashes > 0 /\ done.who = "worker") =>
          /\ {done.parts[i] : i \in 1..Len(done.parts)} = 1..NParts(done.size)
          /\ object = [i \in 1..done.size |-> written[i - 1]]

\* The process exited between two part PUTs with a part recorded in the
\* sidecar, restarted, and the worker completed the three-part upload.
CrashRecoveryWitness ==
    /\ crash_at = "stream"
    /\ running
    /\ done.who = "worker"
    /\ Len(done.parts) > 2
    /\ object = [i \in 1..done.size |-> written[i - 1]]
    /\ data_file = NoDataFile /\ job_file = NoJobFile

\* C3: no silent drop. Once the worker has nothing left to do, a job that
\* stage_file accepted has reached one of two outcomes: its upload completed
\* and data file and sidecar are deleted, or data file and sidecar are both
\* in failed/.
NoSilentDrop ==
    (accepted /\ running /\ wpc = "recv" /\ queue = <<>>) =>
        \/ done.who = "worker" /\ data_file.loc = "none" /\ job_file.loc = "none"
        \/ data_file.loc = "failed" /\ job_file.loc = "failed"

FsyncContract ==
    [][/\ (ureply' = [op |-> "fsync", code |-> "pending"] /\ ureply' # ureply) =>
             /\ handles.write_mode /\ handles.dirty
             /\ inl'.who = "fsync"
       /\ (inl.who = "fsync" /\ inl'.who = "none" /\ running') =>
             /\ ureply'.op = "fsync" /\ ureply'.code \in {"ok", "EIO"}
             /\ (ureply'.code = "ok") =>
                   /\ object' = temp_file /\ flushed'
                   /\ handles' = [handles EXCEPT !.dirty = FALSE]
                   /\ ~cache'.nodes[FileNode.id].present
             /\ (ureply'.code = "EIO") =>
                   /\ handles' = handles /\ handles.dirty
                   /\ UNCHANGED <<object, flushed, cache>>
       /\ (inl.who = "none" /\ inl'.who = "none" /\ ureply' # ureply
             /\ ureply' = [op |-> "fsync", code |-> "ok"]) =>
             /\ ~(handles.write_mode /\ handles.dirty)
             /\ UNCHANGED <<handles, temp_file, data_file, job_file, queue, wpc,
                            parts_store, object, cache, unsorted, flushed>>
      ]_vars

\* C12 witness: fsync has uploaded a dirty write handle and replied ok
FsyncContractWitness ==
    /\ ureply = [op |-> "fsync", code |-> "ok"]
    /\ handles.write_mode /\ ~handles.dirty
    /\ done.who = "fsync" /\ object = temp_file /\ Len(temp_file) > PART_SIZE
    /\ ~cache.nodes[FileNode.id].present

\* C12 witness of the failure: fsync has replied EIO and the handle is dirty
FsyncFailedWitness ==
    /\ ureply = [op |-> "fsync", code |-> "EIO"]
    /\ handles.write_mode /\ handles.dirty /\ inl.who = "none"

ReleaseFailureLeak ==
    [][(inl.who = "release" /\ inl'.who = "none" /\ running' /\ ~flushed') =>
          /\ ureply' = [op |-> "release", code |-> "ok"]
          /\ temp_file # NoFile
          /\ temp_file' = temp_file
      ]_vars

\* C15: every complete_multipart_upload call, by the worker's first pass, by
\* a retry pass, by a pass resumed from a recovered sidecar and by the inline
\* uploaders, carries its parts in ascending order of part number
SortedComplete == ~unsorted

DeadLetterRestartWitness ==
    /\ running /\ crashes > 0 /\ sleeps = <<>> /\ wpc = "recv" /\ queue = <<>>
    /\ data_file.loc = "failed" /\ job_file.loc = "failed"

\* C17: whenever the process is down, a sidecar on disk is a complete version
\* of the job, never a partly written file
SidecarWhole ==
    (~running /\ job_file.loc # "none") => ~job_file.partial

\* C18: at startup a complete sidecar whose data file is missing is moved into
\* failed/: it is neither deleted nor queued
OrphanToFailed ==
    [][(~running /\ running' /\ needs_staging(durability_mode)
           /\ job_file.loc = "staging" /\ ~job_file.partial
           /\ data_file.loc # "staging") =>
          /\ job_file' = [job_file EXCEPT !.loc = "failed"]
          /\ queue' = <<>>
      ]_vars

\* C19: whenever the cache serves a listing of p that contains a node n, the
\* parents index maps n.id to p, and the node entry of n.id, when there is
\* one, has n's name and kind
ListingCoherent ==
    \A p \in CacheIds :
        get_children_hit(cache, p) =>
            \A n \in cache.children[p].children :
                /\ cache.parents[n.id] = p
                /\ cache.nodes[n.id].present =>
                      /\ cache.nodes[n.id].node.name = n.name
                      /\ cache.nodes[n.id].node.kind = n.kind

\* C20: after a request that made the name n present in the directory p (a
\* mkdir of n in p, a rename to n in p), is_negative(p, n) is false
NegativeCleared ==
    [][\A p \in Ids, n \in Names :
          (/\ ~\E i \in Ids : srv[i].exists /\ srv[i].parent = p /\ srv[i].name = n
           /\ \E i \in Ids : srv'[i].exists /\ srv'[i].parent = p /\ srv'[i].name = n)
          => ~is_negative(cache', p, n)]_vars

\* C21: negative storm.  A lookup of (p, n) made while the negative entry of
\* (p, n) is within its TTL makes no resolve call and replies ENOENT.  A
\* lookup of a name that is absent remotely and has no negative entry within
\* its TTL (the first lookup, or the first after the TTL has elapsed) makes
\* exactly one resolve call, and when the call is answered the reply is
\* ENOENT and the negative entry lives for NEGATIVE_TTL from now.
NegativeStorm ==
    [][(lk'.flip # lk.flip) =>
          LET p == lk'.p
              n == lk'.n
              neg == cache.negative[<<p, n>>]
              absent == ~\E i \in Ids : srv[i].exists /\ srv[i].parent = p /\ srv[i].name = n
          IN  /\ (neg # 0 /\ neg > now) => (lk'.calls = 0 /\ freply' = "ENOENT")
              /\ (absent /\ ~(neg # 0 /\ neg > now)
                     /\ ~(cache.children[p].present /\ Live(cache.children[p].expires_at)
                            /\ \E ch \in cache.children[p].children : ch.name = n)) =>
                    /\ lk'.calls = 1
                    /\ freply' \in {"ENOENT", "EIO"}
                    /\ (freply' = "ENOENT") => cache'.negative[<<p, n>>] = now + NEGATIVE_TTL
      ]_vars

\* C21 witness: after the negative TTL of (p, n) has elapsed a lookup of the
\* absent name has made one more resolve call and stored a new negative entry
NegativeStormWitness ==
    /\ now = NEGATIVE_TTL /\ lk.calls = 1 /\ lk.p = ROOT_ID /\ freply = "ENOENT"
    /\ cache.negative[<<lk.p, lk.n>>] = now + NEGATIVE_TTL
    /\ lk.flip = FALSE

\* C21 witness of the storm: a lookup was answered from the negative cache
NegativeStormCachedWitness ==
    /\ lk.p = ROOT_ID /\ lk.calls = 0 /\ freply = "ENOENT"
    /\ cache.negative[<<lk.p, lk.n>>] > now

\* C22: a listing is stored without expiry only when get_manifest returned it
\* for a committed node; a listing that list_all_children returned, also
\* after a failed get_manifest, is stored with the mutable TTL
ImmutableOnlyManifest ==
    [][\A p \in Ids :
          (cache'.children[p] # cache.children[p] /\ cache'.children[p].present) =>
             /\ (cache'.children[p].expires_at = NEVER) =>
                   (freply' = "manifest" /\ srv[p].committed)
             /\ (freply' = "listed") =>
                   cache'.children[p].expires_at = now + CACHE_TTL
      ]_vars

\* C23: once every get_or_create and forget has returned and the kernel has
\* forgotten every reference it was handed for a non-root inode, that inode's
\* refcount is zero and its mapping is gone in both directions.
ForgetReleases ==
    (\A t \in Threads : ipc[t] = "idle") =>
       \A i \in Inos \ {ROOT_INO} :
          kref[i] = 0 =>
             /\ refcounts[i] = 0
             /\ ino_to_node[i] = "none"
             /\ \A n \in NodeIds : node_to_ino[n] # i

\* C24: on a read-only mount every create, mkdir, rmdir, unlink, rename, setxattr
\* and removexattr is answered EROFS, and none of them changes the remote tree,
\* the cache (which an API call would fill) or the open handles.
ReadOnlyRejects ==
    [][(read_only /\ now' = now) =>
          /\ UNCHANGED <<srv, cache, known, handles, temp_file, created>>
          /\ IF ureply' # ureply
             THEN ureply' = [op |-> "create", code |-> "EROFS"]
             ELSE freply' = "EROFS"
      ]_vars

ReadOnlyRejectsWitness ==
    /\ read_only
    /\ freply = "EROFS"
    /\ ureply = [op |-> "create", code |-> "EROFS"]

\* C25: a write on a write-mode handle replies exactly the length of its data,
\* marks the handle dirty and leaves size = max(size, offset + len); a write on a
\* handle that is unknown or not in write mode replies EBADF and changes nothing;
\* and after every write or truncation the size of a write-mode handle is the
\* length of its temp file.
WriteContract ==
    [][/\ (hr'.flip # hr.flip /\ hr'.op = "write") =>
             IF handles # NoHandle /\ handles.write_mode
             THEN /\ hr'.code = "ok"
                  /\ hr'.n = hr'.b
                  /\ handles'.dirty
                  /\ handles'.size = Max(handles.size, hr'.a + hr'.b)
             ELSE /\ hr'.code = "EBADF"
                  /\ UNCHANGED upVars
       /\ (handles' # NoHandle /\ handles'.write_mode) =>
             handles'.size = Len(temp_file')
      ]_vars

\* a write extended the file, another was refused on a handle opened for reading
WriteContractWitness ==
    /\ hr.op = "write" /\ hr.code = "ok"
    /\ handles.write_mode /\ handles.size = hr.a + hr.b
    /\ Len(temp_file) > 2

WriteRefusedWitness ==
    /\ hr.op = "write" /\ hr.code = "EBADF"
    /\ handles # NoHandle /\ ~handles.write_mode

\* C28: a setattr with a size on a handle that is not in write mode replies EBADF
\* and truncates nothing; on a write-mode handle it truncates the temp file to the
\* new size, sets the handle's size and marks the handle dirty.
SetattrContract ==
    [][(hr'.flip # hr.flip /\ hr'.op = "setattr" /\ handles # NoHandle) =>
          IF handles.write_mode
          THEN /\ Len(temp_file') = hr'.b
               /\ handles'.size = hr'.b
               /\ handles'.dirty
          ELSE /\ hr'.code = "EBADF"
               /\ UNCHANGED <<handles, temp_file>>
      ]_vars

\* C26: a read inside the file on a handle whose URL is within url_refresh_buffer
\* of its expiry calls get_download_url exactly once before its first range fetch
\* and, the call succeeding, stores the new URL and expiry in the handle and fetches
\* with the new URL; a first range fetch that fails with a 403 is followed by exactly
\* one more get_download_url and, that call succeeding, exactly one retry of the
\* range; no read fetches more than twice.
UrlRefreshCounts ==
    [][\A pre \in UrlOutcomes, f1 \in RangeOutcomes, re \in UrlOutcomes, f2 \in RangeOutcomes :
          UrlRead(FALSE, pre, f1, re, f2) =>
             LET near == uclock + URL_REFRESH_BUFFER > uh.expires_at
                 fresh == [download_url |-> uclock, expires_at |-> uclock + EXPIRES_IN]
             IN /\ rq'.refreshes = (IF near THEN 1 ELSE 0) + (IF is_403(f1) THEN 1 ELSE 0)
                /\ rq'.fetches = 1 + (IF is_403(f1) /\ re = "Ok" THEN 1 ELSE 0)
                /\ (near /\ pre = "Ok") => (uh' = fresh /\ rq'.url = uclock)
                /\ ~(near /\ pre = "Ok") => (uh' = uh /\ rq'.url = uh.download_url)
      ]_vars

\* a read refreshed a URL near its expiry, met a 403, refreshed again and got its data
UrlRefreshCountsWitness ==
    /\ rq.refreshes = 2
    /\ rq.fetches = 2
    /\ rq.code = "data"
    /\ uh.download_url = uclock
    /\ uclock > 0

\* C27: a read whose range download fails with a 403 again after the reactive
\* refresh and retry replies EACCES.
SecondForbiddenDenied ==
    [][\A pre \in UrlOutcomes, re \in UrlOutcomes :
          UrlRead(FALSE, pre, "ServerError 403", re, "ServerError 403") /\ re = "Ok"
             => rq'.code = "EACCES"
      ]_vars

\* C29: once a volume is marked in_crash_loop, the mark stays until the volume is
\* unregistered, and every stage request answered meanwhile is refused with the
\* crash-loop error.
CrashLoopSticky ==
    [][\A v \in Vols :
          (processes[v].registered /\ processes[v].in_crash_loop) =>
             /\ processes'[v].registered => processes'[v].in_crash_loop
             /\ sreply'[v] # sreply[v] => sreply'[v] = "crash_loop"
      ]_vars

\* C30: every recorded restart leaves the backoff doubled (from initial_backoff
\* when the restart window had expired) and capped at max_backoff, the backoff
\* always lies between initial_backoff and max_backoff, and the restart recorded
\* as the k-th of its window was launched after a wait of
\* min(initial_backoff * 2^(k-1), max_backoff).
RestartBackoff ==
    [][\A task \in tasks, ok \in BOOLEAN :
          (Recovery(task, ok) /\ processes[task.vol].registered) =>
             LET st == processes[task.vol]
                 st2 == processes'[task.vol]
                 expired == st.restart_window_start # NoInstant
                            /\ sclock - st.restart_window_start > CRASH_LOOP_WINDOW
                 base == IF expired THEN INITIAL_BACKOFF ELSE st.current_backoff
                 k == st2.restart_count
             IN /\ st2.current_backoff = Min(base * 2, MAX_BACKOFF)
                /\ INITIAL_BACKOFF <= st2.current_backoff
                /\ st2.current_backoff <= MAX_BACKOFF
                /\ task.wake - task.launched = Min(INITIAL_BACKOFF * 2 ^ (k - 1), MAX_BACKOFF)
      ]_vars

(***************************************************************************)
(* Lock discipline of the InodeMap                                         *)
(***************************************************************************)
LockRank(l) == CASE l = "n2i" -> 1 [] l = "i2n" -> 2 [] l = "refs" -> 3

\* the lock a thread is about to take at its position, "none" when it takes none
Wanted(t) ==
    CASE ipc[t] \in {"goc_rd_n2i", "goc_wr_n2i", "fg_wr_n2i", "gi_rd_n2i", "sr_wr_n2i"} -> "n2i"
      [] ipc[t] \in {"goc_wr_i2n", "fg_wr_i2n", "gni_rd_i2n", "sr_wr_i2n"} -> "i2n"
      [] ipc[t] \in {"goc_wr_refs", "goc_insert", "fg_remove", "sr_insert"} -> "refs"
      [] OTHER -> "none"

WantsWrite(t) == ipc[t] \in {"goc_wr_n2i", "fg_wr_n2i", "sr_wr_n2i", "goc_wr_i2n", "fg_wr_i2n",
                             "sr_wr_i2n", "goc_wr_refs", "goc_insert", "sr_insert"}

Holds(t, l) == ilocks[l].w = t \/ t \in ilocks[l].r

\* the threads whose guard keeps t from taking the lock it wants
Blockers(t) ==
    IF Wanted(t) = "none" THEN {}
    ELSE {u \in Threads : \/ ilocks[Wanted(t)].w = u
                          \/ WantsWrite(t) /\ u \in ilocks[Wanted(t)].r}

\* a set of threads each waiting for a guard held inside the set
Deadlocked(D) == D # {} /\ \A t \in D : Blockers(t) # {} /\ Blockers(t) \subseteq D

\* C34: a thread that is about to take a lock holds only locks that come
\* earlier in the order node_to_ino, ino_to_node, refcounts, and no set of
\* threads waits in a cycle for each other's guards
LockOrderKept ==
    /\ \A t \in Threads : \A l \in {"n2i", "i2n", "refs"} :
          (Holds(t, l) /\ Wanted(t) # "none") => LockRank(l) < LockRank(Wanted(t))
    /\ \A D \in SUBSET Threads : ~Deadlocked(D)

\* one thread holds node_to_ino and ino_to_node for writing while the other waits for node_to_ino
LockOrderKeptWitness ==
    \E t \in Threads, u \in Threads :
        /\ t # u
        /\ ilocks["n2i"].w = t /\ ilocks["i2n"].w = t /\ Wanted(t) = "refs"
        /\ Wanted(u) = "n2i" /\ Blockers(u) = {t}

\* no InodeMap call is in progress
Quiescent == \A t \in Threads : ipc[t] = "idle"

\* C35: whenever no call is in progress the two maps are inverse bijections
\* and every mapped inode has a refcount of at least 1; and an inode that
\* get_or_create handed to the kernel and the kernel has not forgotten is
\* resolved by get_node_id, also while a forget that dropped its count to
\* zero is still on its way to the removal
MapsConsistent ==
    /\ Quiescent =>
          /\ \A n \in NodeIds : node_to_ino[n] # 0 =>
                /\ ino_to_node[node_to_ino[n]] = n
                /\ refcounts[node_to_ino[n]] >= 1
          /\ \A i \in Inos : ino_to_node[i] # "none" => node_to_ino[ino_to_node[i]] = i
    /\ \A i \in Inos : kref[i] > 0 =>
          /\ get_node_id(i) # "none"
          /\ node_to_ino[get_node_id(i)] = i

\* a forget dropped the count to zero, and before its removal step a
\* get_or_create returned the old inode and resurrected the count
MapsConsistentWitness ==
    \E t \in Threads :
        /\ ipc[t] = "fg_remove"
        /\ iarg[t].ino # ROOT_INO
        /\ refcounts[iarg[t].ino] >= 1
        /\ kref[iarg[t].ino] >= 1

(***************************************************************************)
(* Supervisor: key file, restart tasks                                     *)
(***************************************************************************)
\* C33: whenever node_unstage_volume returns, having unregistered the volume,
\* the volume's key file is gone
KeyFileRemoved ==
    [][\A v \in Vols, unmount \in UnmountResults :
          Unstage(v, unmount) => (~processes'[v].registered => ~keyfile'[v])]_vars

\* C38: at most one restart task is pending per volume
OneRestartPending ==
    \A v \in Vols : Cardinality({task \in tasks : task.vol = v}) <= 1

\* C39: a restart task starts no mount process for a volume that is not registered
NoSpawnAfterUnregister ==
    [][\A task \in tasks :
          (Recovery(task, TRUE) /\ ~processes[task.vol].registered) => alive'[task.vol] = alive[task.vol]]_vars

\* C31: a health check that has started returns, and a supervisor call of a
\* gRPC handler that has started returns, whatever mounts hang
ProbeCapped ==
    /\ (ppc # "idle") ~> (ppc = "idle")
    /\ (apc # NoCall) ~> (apc = NoCall)

CompleteOnce ==
    [][\A ok \in BOOLEAN :
          (InlineComplete(ok) \/ ResumeComplete(ok) \/ StreamComplete(ok)) => done = NoDone]_vars

\* C37: every staged job is sent to the worker channel at most once
DeliveredOnce == \A j \in HJobs : hsent[j] <= 1

\* C40: once the created file has been written and released, its upload
\* staged or completed, a readdir of the parent is not answered from a
\* listing that was cached before the create
ListingInvalidated ==
    [][\A api \in Api, mf \in Api :
          (/\ Readdir(FileNode.parent_id, api, mf)
           /\ created /\ nwrites > 0 /\ rsize # -1
           /\ inl = NoInline /\ (accepted \/ flushed))
          => ~(freply' = "cached" /\ FileNode.parent_id \notin cachedAfter)]_vars
====
